---- MODULE Spec2Model ----
(***************************************************************************)
(* Model of the unlock core of zfs_beskar_key: the run_unlock retry loop   *)
(* (src/cmd/unlock.rs), the boot-time auto_unlock_with and the lock        *)
(* command (src/main.rs), the Lockout controller (src/util/lockout.rs)     *)
(* and the key material source.  The Zfs adapter (crate::zfs::Zfs) is not  *)
(* part of the sources at hand; it is modelled from the design document.   *)
(* Text is a sequence of character codes, a key a sequence of bytes.       *)
(***************************************************************************)
EXTENDS Integers, Sequences, FiniteSets, TLC

VARIABLES
  keystatus,       \* world: dataset -> "available" | "unavailable"
  wrapKey,         \* world: the key material the encryption root accepts
  keyFile,         \* world: what the USB key path holds (a name of KeyFileContent)
  cfg,             \* ConfigFile fields read by the workflows
  wf,              \* workflow of the current session
  pc,              \* position of the workflow
  dataset,         \* dataset argument of the workflow
  strict_usb,      \* UnlockOptions.strict_usb
  enc_root,        \* run_unlock / auto_unlock_with local
  attempt,         \* loop variable of run_unlock (0 before the loop)
  usb_available,   \* run_unlock local
  fallback_primed, \* run_unlock local
  key_material,    \* bytes acquired for the current attempt
  origin,          \* KeyOrigin of key_material
  lockout,         \* Lockout {start, delay}; elapsed = seconds since start
  result,          \* outcome of the session
  log,             \* observation history of the current session
  again,           \* this session repeats a run_unlock that was skipped as open
  lk,              \* a Lockout driven by arbitrary calls, with its last call
  tree,            \* a pool of several datasets and the last load_key_tree on it
  inodes,          \* file system: the files, by inode
  dir,             \* file system: name -> inode, as the running system sees it
  ddir,            \* file system: name -> inode, as persisted
  tasks,           \* the writers at work on the file system
  seen,            \* what a reader of the destination has read
  hist,            \* observations on the file system run
  run,             \* one Cmd::run call
  src,             \* a key file given to the key sources
  ctor,            \* one Cmd::new_allowlisted call and the files on disk
  ini,             \* one run_init on a pool and a USB token
  doc,             \* a Config, a key file and the workflows reading them
  rec,             \* a key and the recovery code made from it
  norm             \* a Config under normalisation

unlockVars == <<keystatus, wrapKey, keyFile, cfg, wf, pc, dataset, strict_usb,
                enc_root, attempt, usb_available, fallback_primed, key_material,
                origin, lockout, result, log, again>>

storeVars == <<inodes, dir, ddir, tasks, seen, hist>>

auxVars == <<ctor, ini, doc, rec, norm>>

sideVars == <<lk, tree, storeVars, run, src, auxVars>>

vars == <<unlockVars, sideVars>>

\* ------------------------------------------------------------------------
\* Program constants
\* ------------------------------------------------------------------------
\* a loop that runs one round too many
MaxAttemptsOffByOne == 3 + 1

MAX_ATTEMPTS == 3
BaseDelay == 5
MaxDelay == 60
HexKeyLen == 64
RawKeyLen == 32

\* ------------------------------------------------------------------------
\* Text and byte helpers
\* ------------------------------------------------------------------------
Min(a, b) == IF a < b THEN a ELSE b

\* n repetitions of the two-character text <<a, b>>
Rep2(a, b, n) == [i \in 1..(2 * n) |-> IF i % 2 = 1 THEN a ELSE b]

IsDigit(c) == c \in 48..57
IsUpperHex(c) == c \in 65..70
IsLowerHex(c) == c \in 97..102

is_ascii_hexdigit(c) == IsDigit(c) \/ IsUpperHex(c) \/ IsLowerHex(c)

HexVal(c) ==
  IF IsDigit(c) THEN c - 48
  ELSE IF IsUpperHex(c) THEN c - 55
  ELSE c - 87

HexChar(v) == IF v < 10 THEN 48 + v ELSE 87 + v

\* hex::decode on a text of hex digits of even length
hex_decode(text) ==
  [i \in 1..(Len(text) \div 2) |->
     16 * HexVal(text[2 * i - 1]) + HexVal(text[2 * i])]

\* hex::encode: lowercase digits
hex_encode(bytes) ==
  [i \in 1..(2 * Len(bytes)) |->
     IF i % 2 = 1 THEN HexChar(bytes[(i + 1) \div 2] \div 16)
     ELSE HexChar(bytes[i \div 2] % 16)]

to_ascii_lowercase(c) == IF c \in 65..90 THEN c + 32 ELSE c

eq_ignore_ascii_case(a, b) ==
  /\ Len(a) = Len(b)
  /\ \A i \in 1..Len(a) : to_ascii_lowercase(a[i]) = to_ascii_lowercase(b[i])

\* UTF-8 validity as String::from_utf8 decides it, for one- and two-byte
\* sequences (the key files below hold no byte above 0xDF).
RECURSIVE Utf8From(_, _)
Utf8From(data, i) ==
  IF i > Len(data) THEN TRUE
  ELSE IF data[i] < 128 THEN Utf8From(data, i + 1)
  ELSE IF data[i] \in 194..223 /\ i < Len(data) /\ data[i + 1] \in 128..191
       THEN Utf8From(data, i + 2)
  ELSE FALSE

IsUtf8(data) == Utf8From(data, 1)

RECURSIVE WeightedSum(_, _, _)
WeightedSum(bytes, i, w) ==
  IF i > Len(bytes) THEN 0
  ELSE (IF w THEN i * bytes[i] ELSE bytes[i]) + WeightedSum(bytes, i + 1, w)

\* Stand-in for the SHA-256 digest (sha2 crate): a deterministic two-byte
\* digest of the bytes, rendered by hex::encode as the code does.
Sha256Hex(bytes) ==
  hex_encode(<<WeightedSum(bytes, 1, FALSE) % 256,
               WeightedSum(bytes, 1, TRUE) % 256>>)

ToUpperText(t) == [i \in 1..Len(t) |-> IF t[i] \in 97..122 THEN t[i] - 32 ELSE t[i]]

LowerCaseText(t) == [i \in 1..Len(t) |-> to_ascii_lowercase(t[i])]

\* trim_end_matches(|c| c == '\n' || c == '\r')
RECURSIVE trim_end_newlines(_)
trim_end_newlines(t) ==
  IF Len(t) > 0 /\ t[Len(t)] \in {10, 13}
  THEN trim_end_newlines(SubSeq(t, 1, Len(t) - 1))
  ELSE t

\* err_msg.contains(pattern), over messages held as sequences of words
Contains(msg, pat) ==
  \E i \in 1..(Len(msg) - Len(pat) + 1) : SubSeq(msg, i, i + Len(pat) - 1) = pat

\* ------------------------------------------------------------------------
\* World: datasets, keys, key files, tool messages
\* ------------------------------------------------------------------------
Root == "rpool/ROOT"
Child == "rpool/ROOT/ubuntu"
Datasets == {Root, Child}
DatasetOrder == <<Root, Child>>

\* encryptionroot property of each dataset (every dataset is encrypted)
EncRootOf == [d \in Datasets |-> Root]

Inheritors(root) == {d \in Datasets : EncRootOf[d] = root /\ d # root}

KeyAB == [i \in 1..RawKeyLen |-> 171]
KeyCD == [i \in 1..RawKeyLen |-> 205]
PassPw == <<112, 119>>
PassNo == <<110, 111>>

FileMissing == [exists |-> FALSE, readable |-> FALSE, data |-> <<>>]
FileHexAB == [exists |-> TRUE, readable |-> TRUE,
              data |-> Rep2(97, 98, RawKeyLen) \o <<10>>]
FileHexCD == [exists |-> TRUE, readable |-> TRUE,
              data |-> Rep2(67, 68, RawKeyLen) \o <<10>>]
FileShort == [exists |-> TRUE, readable |-> TRUE,
              data |-> Rep2(97, 98, RawKeyLen - 1) \o <<10>>]
FileRawAB == [exists |-> TRUE, readable |-> TRUE, data |-> KeyAB]
FileDenied == [exists |-> TRUE, readable |-> FALSE,
               data |-> Rep2(97, 98, RawKeyLen) \o <<10>>]
\* what the key path may hold, by name
KeyFileContent ==
  [n \in {"missing", "hexAB", "hexCD", "short", "rawAB", "denied"} |->
     CASE n = "missing" -> FileMissing
       [] n = "hexAB" -> FileHexAB
       [] n = "hexCD" -> FileHexCD
       [] n = "short" -> FileShort
       [] n = "rawAB" -> FileRawAB
       [] n = "denied" -> FileDenied]

KeyFiles == DOMAIN KeyFileContent

\* Option<String>
NoText == [some |-> FALSE, value |-> <<>>]
NoPath == [some |-> FALSE, value |-> ""]
Some(x) == [some |-> TRUE, value |-> x]

ExpectedChoices ==
  {NoText, Some(ToUpperText(Sha256Hex(KeyAB))), Some(Sha256Hex(KeyCD))}

AskPath == "/usr/bin/systemd-ask-password"
AskPathAbsent == "/bin/systemd-ask-password"
AskPathForeign == "/opt/ask-password"
ExistingFiles == {AskPath, AskPathForeign}

\* Fallback::default() (src/config.rs) and variations of it; the asker
\* settings are only read when fallback is enabled
DefaultFallback ==
  [enabled |-> TRUE, askpass |-> TRUE, askpass_path |-> Some(AskPath)]

FallbackChoices ==
  { DefaultFallback,
    [DefaultFallback EXCEPT !.enabled = FALSE],
    [DefaultFallback EXCEPT !.askpass = FALSE],
    [DefaultFallback EXCEPT !.askpass_path = NoPath],
    [DefaultFallback EXCEPT !.askpass_path = Some(AskPathAbsent)],
    [DefaultFallback EXCEPT !.askpass_path = Some(AskPathForeign)] }

Configs ==
  { [fallback |-> f, expected_sha256 |-> x] :
      f \in FallbackChoices, x \in ExpectedChoices }

AutoConfigs == {c \in Configs : c.fallback = DefaultFallback}

MsgAlready == <<"Key", "load", "error:", "Key", "already", "loaded", "for", "dataset">>
MsgIncorrect == <<"Key", "load", "error:", "Incorrect", "key", "provided">>
MsgTimeout == <<"command", "timed", "out">>
PatAlreadyLoaded == <<"Key", "already", "loaded">>

\* ------------------------------------------------------------------------
\* Cmd::new_allowlisted (src/cmd/base.rs)
\* ------------------------------------------------------------------------
Allowed ==
  { "/sbin/zfs", "/usr/sbin/zfs", "/usr/local/sbin/zfs", "/bin/zfs",
    "/bin/systemctl", "/usr/bin/systemctl",
    "/sbin/zpool", "/usr/sbin/zpool", "/usr/local/sbin/zpool",
    "/usr/bin/dracut", "/usr/sbin/dracut",
    "/sbin/parted", "/usr/sbin/parted", "/usr/bin/parted",
    "/sbin/mkfs.ext4", "/usr/sbin/mkfs.ext4", "/usr/bin/mkfs.ext4",
    "/sbin/blkid", "/usr/sbin/blkid", "/usr/bin/blkid",
    "/bin/mount", "/usr/bin/mount", "/bin/umount", "/usr/bin/umount",
    "/bin/lsblk", "/usr/bin/lsblk",
    "/sbin/udevadm", "/usr/sbin/udevadm", "/usr/bin/udevadm",
    "/bin/systemd-ask-password", "/usr/bin/systemd-ask-password",
    "/bin/systemd-analyze", "/usr/bin/systemd-analyze" }

new_allowlisted(path) == path \in Allowed

\* ------------------------------------------------------------------------
\* Key material source (src/cmd/unlock.rs)
\* ------------------------------------------------------------------------
ChecksumOk(c, bytes) ==
  c.expected_sha256.some =>
    eq_ignore_ascii_case(Sha256Hex(bytes), c.expected_sha256.value)

\* the key source with the checksum comparison left out
load_usb_key_material_unchecked(c, f) ==
  IF ~f.exists
  THEN [ok |-> FALSE, bytes |-> <<>>, err |-> "not_found", read |-> FALSE]
  ELSE IF ~f.readable \/ ~IsUtf8(f.data)
  THEN [ok |-> FALSE, bytes |-> <<>>, err |-> "read_failed", read |-> TRUE]
  ELSE LET cleaned == SelectSeq(f.data, is_ascii_hexdigit) IN
    IF Len(cleaned) # HexKeyLen
    THEN [ok |-> FALSE, bytes |-> <<>>, err |-> "malformed", read |-> TRUE]
    ELSE [ok |-> TRUE, bytes |-> hex_decode(cleaned), err |-> "none", read |-> TRUE]

\* load_usb_key_material: [ok, bytes, err, read]
load_usb_key_material(c, f) ==
  IF ~f.exists
  THEN [ok |-> FALSE, bytes |-> <<>>, err |-> "not_found", read |-> FALSE]
  ELSE IF ~f.readable \/ ~IsUtf8(f.data)
  THEN [ok |-> FALSE, bytes |-> <<>>, err |-> "read_failed", read |-> TRUE]
  ELSE LET cleaned == SelectSeq(f.data, is_ascii_hexdigit) IN
    IF Len(cleaned) # HexKeyLen
    THEN [ok |-> FALSE, bytes |-> <<>>, err |-> "malformed", read |-> TRUE]
    ELSE LET raw_bytes == hex_decode(cleaned) IN
      IF ~ChecksumOk(c, raw_bytes)
      THEN [ok |-> FALSE, bytes |-> <<>>, err |-> "checksum_mismatch", read |-> TRUE]
      ELSE [ok |-> TRUE, bytes |-> raw_bytes, err |-> "none", read |-> TRUE]

\* load_usb_key_material for every configured checksum and key file
UsbTable ==
  [x \in ExpectedChoices, f \in KeyFiles |->
     load_usb_key_material([expected_sha256 |-> x], KeyFileContent[f])]

\* what the asker tool may do when run, and what the operator may type
AskerOutcomes ==
  { [kind |-> "ok", status |-> 0, stdout |-> PassPw \o <<13, 10>>],
    [kind |-> "ok", status |-> 0, stdout |-> <<10>>],
    [kind |-> "ok", status |-> 1, stdout |-> <<>>],
    [kind |-> "err", status |-> 0, stdout |-> <<>>] }

\* Password::interact with allow_empty_password(false): a non-empty text or
\* an I/O error
InteractOutcomes ==
  { [ok |-> TRUE, text |-> PassPw],
    [ok |-> TRUE, text |-> PassNo],
    [ok |-> FALSE, text |-> <<>>] }

\* the asker tool succeeded and its answer is empty once the line end is
\* trimmed (unlock.rs 345-354)
asker_answer_empty(ask) ==
  ask.kind = "ok" /\ ask.status = 0 /\ trim_end_newlines(ask.stdout) = <<>>

\* a prompt that hands on whatever the asker tool answered
prompt_fallback_passphrase_unfiltered(c, ask, inter) ==
  LET runs == /\ c.fallback.askpass
              /\ c.fallback.askpass_path.some
              /\ c.fallback.askpass_path.value \in ExistingFiles
              /\ new_allowlisted(c.fallback.askpass_path.value)
      cleaned == trim_end_newlines(ask.stdout)
  IN IF runs /\ ask.kind = "ok" /\ ask.status = 0
     THEN [ok |-> TRUE, pass |-> cleaned, asker |-> 1, prompted |-> 0]
     ELSE [ok |-> inter.ok, pass |-> inter.text,
           asker |-> IF runs THEN 1 ELSE 0, prompted |-> 1]

\* prompt_fallback_passphrase: [ok, pass, asker, prompted]
prompt_fallback_passphrase(c, ask, inter) ==
  LET runs == /\ c.fallback.askpass
              /\ c.fallback.askpass_path.some
              /\ c.fallback.askpass_path.value \in ExistingFiles
              /\ new_allowlisted(c.fallback.askpass_path.value)
      cleaned == trim_end_newlines(ask.stdout)
  IN IF runs /\ ask.kind = "ok" /\ ask.status = 0 /\ cleaned # <<>>
     THEN [ok |-> TRUE, pass |-> cleaned, asker |-> 1, prompted |-> 0]
     ELSE [ok |-> inter.ok, pass |-> inter.text,
           asker |-> IF runs THEN 1 ELSE 0, prompted |-> 1]

\* ------------------------------------------------------------------------
\* Lockout (src/util/lockout.rs); elapsed counts whole seconds since start
\* ------------------------------------------------------------------------
Lockout_new == [start |-> FALSE, elapsed |-> 0, delay |-> BaseDelay]

\* a failure that escalates the delay but does not stamp the time
register_failure_unstamped(l) ==
  [start |-> l.start, elapsed |-> l.elapsed, delay |-> Min(l.delay * 2, MaxDelay)]

\* an escalation that forgets the cap
register_failure_uncapped(l) ==
  [start |-> TRUE, elapsed |-> 0, delay |-> l.delay * 2]

register_failure(l) ==
  [start |-> TRUE, elapsed |-> 0, delay |-> Min(l.delay * 2, MaxDelay)]

WaitNeeded(l) == l.start /\ l.elapsed < l.delay

wait_if_needed(l) ==
  IF WaitNeeded(l) THEN [l EXCEPT !.elapsed = l.delay] ELSE l

reset(l) == [start |-> FALSE, elapsed |-> 0, delay |-> BaseDelay]

\* a Lockout as constructed, no call made on it yet
LkNew == [cur |-> Lockout_new, prev |-> Lockout_new, op |-> "new", fails |-> 0]

\* a pool with a root, two datasets inheriting from it, and a foreign root
Home == "rpool/ROOT/home"
Other == "tank/data"

TreeWorld ==
  [datasets |-> {Root, Child, Home, Other},
   rootOf |-> [d \in {Root, Child, Home, Other} |-> IF d = Other THEN Other ELSE Root],
   order |-> <<Root, Child, Home, Other>>]

NoTreeCall ==
  [called |-> FALSE, root |-> Root, before |-> <<>>, prop |-> {},
   ok |-> FALSE, msg |-> <<>>, unlocked |-> {}]

TreeNew ==
  [ks |-> [d \in TreeWorld.datasets |-> "unavailable"], last |-> NoTreeCall]

\* each component before anything has run on it
LkRest == lk = LkNew

TreeRest == tree = TreeNew

StoreRest ==
  /\ inodes = <<>>
  /\ dir = <<>>
  /\ ddir = <<>>
  /\ tasks = <<>>
  /\ seen = <<>>
  /\ hist = <<>>

RunRest == run = <<>>

SrcRest == src = <<>>

CtorRest == ctor = <<>>
IniRest == ini = <<>>
DocRest == doc = <<>>
RecRest == rec = <<>>
NormRest == norm = <<>>

AuxRest == CtorRest /\ IniRest /\ DocRest /\ RecRest /\ NormRest

\* the state of the components that a session of the workflows leaves alone
SideInit == LkRest /\ TreeRest /\ StoreRest /\ RunRest /\ SrcRest /\ AuxRest

\* ------------------------------------------------------------------------
\* Zfs adapter (crate::zfs::Zfs), from the design document
\* ------------------------------------------------------------------------
is_unlocked(ks, ds) == ks[ds] = "available"

encryption_root(ds) == EncRootOf[ds]

\* the datasets a workflow runs against, as the adapter's queries see them
UnlockWorld == [datasets |-> Datasets, rootOf |-> EncRootOf, order |-> DatasetOrder]

InheritorsIn(W, root) == {d \in W.datasets : W.rootOf[d] = root /\ d # root}

\* the error of load_key_tree's re-scan, naming the datasets still locked
MsgStillLockedIn(W, names) ==
  <<"datasets", "still", "locked:">> \o SelectSeq(W.order, LAMBDA d : d \in names)

\* the volume tool's load-key on one dataset; prop is the set of inheriting
\* datasets the tool has propagated the key to when it returns
ToolLoadIn(W, ks, wk, ds, key, prop) ==
  IF ks[ds] = "available"
  THEN [ok |-> FALSE, msg |-> MsgAlready, ks |-> ks]
  ELSE IF key = wk
  THEN [ok |-> TRUE, msg |-> <<>>,
        ks |-> [d \in W.datasets |->
                  IF d = ds \/ d \in (prop \cap InheritorsIn(W, ds))
                  THEN "available" ELSE ks[d]]]
  ELSE [ok |-> FALSE, msg |-> MsgIncorrect, ks |-> ks]

ToolLoad(ks, wk, ds, key, prop) == ToolLoadIn(UnlockWorld, ks, wk, ds, key, prop)

\* load_key: "key already loaded" is success
load_key_in(W, ks, wk, ds, key, prop) ==
  LET r == ToolLoadIn(W, ks, wk, ds, key, prop) IN
  IF ~r.ok /\ Contains(r.msg, PatAlreadyLoaded)
  THEN [ok |-> TRUE, msg |-> <<>>, ks |-> ks]
  ELSE r

load_key(ks, wk, ds, key, prop) == load_key_in(UnlockWorld, ks, wk, ds, key, prop)

\* a tree load that trusts its own loads and does not scan again
load_key_tree_unverified(W, ks, wk, root, key, fault, absorb, prop, failing) ==
  LET first == IF fault THEN [ok |-> FALSE, msg |-> MsgTimeout, ks |-> ks]
               ELSE IF absorb THEN load_key_in(W, ks, wk, root, key, prop)
               ELSE ToolLoadIn(W, ks, wk, root, key, prop)
  IN IF ~first.ok
     THEN [ok |-> FALSE, msg |-> first.msg, ks |-> ks, unlocked |-> {},
           issued |-> {root}]
     ELSE
       LET locked == {d \in W.datasets :
                        W.rootOf[d] = root /\ first.ks[d] # "available"}
           opened == {d \in locked : key = wk /\ d \notin failing}
       IN [ok |-> TRUE, msg |-> <<>>,
           ks |-> [d \in W.datasets |->
                     IF d \in opened THEN "available" ELSE first.ks[d]],
           unlocked |-> {root} \cup locked,
           issued |-> {root} \cup locked]

\* load_key_tree: load the root, load every still-locked dataset of that
\* root, re-scan.  fault: the tool call on the root times out; absorb:
\* whether an "already loaded" answer for the root is taken as success;
\* failing: inheriting datasets whose own load the tool rejects.
load_key_tree_in(W, ks, wk, root, key, fault, absorb, prop, failing) ==
  LET first == IF fault THEN [ok |-> FALSE, msg |-> MsgTimeout, ks |-> ks]
               ELSE IF absorb THEN load_key_in(W, ks, wk, root, key, prop)
               ELSE ToolLoadIn(W, ks, wk, root, key, prop)
  IN IF ~first.ok
     THEN [ok |-> FALSE, msg |-> first.msg, ks |-> ks, unlocked |-> {},
           issued |-> {root}]
     ELSE
       LET locked == {d \in W.datasets :
                        W.rootOf[d] = root /\ first.ks[d] # "available"}
           opened == {d \in locked : key = wk /\ d \notin failing}
           ks2 == [d \in W.datasets |->
                     IF d \in opened THEN "available" ELSE first.ks[d]]
           still == {d \in W.datasets :
                       W.rootOf[d] = root /\ ks2[d] # "available"}
       IN [ok |-> still = {},
           msg |-> IF still = {} THEN <<>> ELSE MsgStillLockedIn(W, still),
           ks |-> ks2,
           unlocked |-> {root} \cup opened,
           issued |-> {root} \cup locked]

load_key_tree(ks, wk, root, key, fault, absorb, prop, failing) ==
  load_key_tree_in(UnlockWorld, ks, wk, root, key, fault, absorb, prop, failing)

\* the volume tool's unload-key; prop as for ToolLoad
unload_key(ks, ds, fault, prop) ==
  IF fault \/ ks[ds] # "available"
  THEN [ok |-> FALSE, ks |-> ks]
  ELSE [ok |-> TRUE,
        ks |-> [d \in Datasets |->
                  IF d = ds \/ d \in (prop \cap Inheritors(ds))
                  THEN "unavailable" ELSE ks[d]]]

\* ------------------------------------------------------------------------
\* Sessions
\* ------------------------------------------------------------------------
EmptyLog ==
  [loads |-> <<>>, outcomes |-> <<>>, unloads |-> <<>>, waits |-> <<>>,
   usbCalls |-> 0, usbReads |-> 0, usbErr |-> "none",
   askerCalls |-> 0, askerEmpty |-> 0, promptCalls |-> 0,
   regs |-> 0, resets |-> 0,
   encQueries |-> <<>>, isUnlockedCalls |-> <<>>, rootQueryOk |-> FALSE,
   sawUnlocked |-> FALSE,
   toolLoads |-> {}, toolUnloads |-> {},
   ks0 |-> [d \in Datasets |-> "unavailable"]]

Idle == pc = "idle"

\* run_unlock has just found the dataset open
Skipped ==
  /\ pc = "done"
  /\ wf = "unlock"
  /\ result = "ok_skip"

\* fallback decided by the strict flag alone
fallback_ignoring_config == ~strict_usb

fallback_allowed == cfg.fallback.enabled /\ ~strict_usb

\* the open test with its sense inverted
dataset_open_inverted(ks, ds) == ~is_unlocked(ks, ds)

\* the test that lets run_unlock return at once (unlock.rs 57-61)
dataset_already_open(ks, ds) == is_unlocked(ks, ds)

\* a target that is always the dataset asked for
unlock_root_unresolved(ds, q) == ds

\* the target run_unlock settles on (unlock.rs 66-84); q: the query succeeded
unlock_enc_root(ds, q) == IF q THEN encryption_root(ds) ELSE ds

\* a rejected USB key that stays the first source
usb_kept_after_rejection(o, avail) == avail

\* usb_available after a rejected load (unlock.rs 233-240)
usb_after_rejection(o, avail) ==
  IF o = "Usb" /\ fallback_allowed THEN FALSE ELSE avail

\* whether a rejected load counts as "key already resident" (unlock.rs 234-249)
treated_as_loaded(o, msg) ==
  /\ ~(o = "Usb" /\ fallback_allowed)
  /\ Contains(msg, PatAlreadyLoaded)

Init ==
  /\ keystatus \in {[d \in Datasets |-> "unavailable"],
                    [d \in Datasets |-> "available"]}
  /\ wrapKey \in {KeyAB, PassPw}
  /\ keyFile = "hexAB"
  /\ cfg = [fallback |-> DefaultFallback, expected_sha256 |-> NoText]
  /\ wf = "none"
  /\ pc = "idle"
  /\ dataset = Root
  /\ strict_usb = FALSE
  /\ enc_root = Root
  /\ attempt = 0
  /\ usb_available = TRUE
  /\ fallback_primed = FALSE
  /\ key_material = <<>>
  /\ origin = "None"
  /\ lockout = Lockout_new
  /\ result = "none"
  /\ log = EmptyLog
  /\ again = FALSE
  /\ SideInit

\* run_unlock up to the head of the attempt loop (unlock.rs 34-100).
\* zfs_ok: the zfs binary was found; q1, q2: the keystatus and the
\* encryptionroot query succeeded.
UnlockEntry(ds, st, c, f, zfs_ok, q1, q2) ==
  /\ wf' = "unlock"
  /\ dataset' = ds
  /\ strict_usb' = st
  /\ cfg' = c
  /\ keyFile' = f
  /\ again' = (pc = "done")
  /\ usb_available' = TRUE
  /\ fallback_primed' = FALSE
  /\ key_material' = <<>>
  /\ origin' = "None"
  /\ lockout' = Lockout_new
  /\ UNCHANGED <<keystatus, wrapKey, sideVars>>
  /\ IF ~zfs_ok
     THEN /\ result' = "err_zfs"
          /\ pc' = "done"
          /\ attempt' = 0
          /\ enc_root' = ds
          /\ log' = [EmptyLog EXCEPT !.ks0 = keystatus]
     ELSE IF ~q1
     THEN /\ result' = "err_query"
          /\ pc' = "done"
          /\ attempt' = 0
          /\ enc_root' = ds
          /\ log' = [EmptyLog EXCEPT !.ks0 = keystatus,
                                     !.isUnlockedCalls = <<ds>>]
     ELSE IF dataset_already_open(keystatus, ds)
     THEN /\ result' = "ok_skip"
          /\ pc' = "done"
          /\ attempt' = 0
          /\ enc_root' = ds
          /\ log' = [EmptyLog EXCEPT !.ks0 = keystatus,
                                     !.isUnlockedCalls = <<ds>>]
     ELSE /\ result' = "none"
          /\ pc' = "acquire"
          /\ attempt' = 1
          /\ enc_root' = unlock_enc_root(ds, q2)
          /\ log' = [EmptyLog EXCEPT !.ks0 = keystatus,
                                     !.isUnlockedCalls = <<ds>>,
                                     !.encQueries = <<ds>>,
                                     !.rootQueryOk = q2]

StartUnlock(ds, st, c, f, zfs_ok, q1, q2) ==
  /\ Idle
  /\ UnlockEntry(ds, st, c, f, zfs_ok, q1, q2)

\* run_unlock called once more, with the same arguments, right after it
\* found the dataset open
RepeatUnlock(zfs_ok, q1, q2) ==
  /\ Skipped
  /\ UnlockEntry(dataset, strict_usb, cfg, keyFile, zfs_ok, q1, q2)

\* key acquisition of one attempt (unlock.rs 108-193): the values of the
\* locals and the position after it
AcquireStep(ask, inter) ==
  LET u == UsbTable[cfg.expected_sha256, keyFile]
      p == prompt_fallback_passphrase(cfg, ask, inter)
      prompted == [usb_available |-> FALSE, fallback_primed |-> TRUE,
                   key |-> p.pass, origin |-> "Passphrase",
                   pc |-> "load", result |-> "none",
                   asker |-> p.asker, prompt |-> p.prompted]
      failed(res, primed) ==
                  [usb_available |-> FALSE, fallback_primed |-> primed,
                   key |-> <<>>, origin |-> "None",
                   pc |-> "done", result |-> res,
                   asker |-> p.asker, prompt |-> p.prompted]
  IN
  IF usb_available
  THEN IF u.ok
       THEN [usb_available |-> TRUE, fallback_primed |-> fallback_primed,
             key |-> u.bytes, origin |-> "Usb", pc |-> "load",
             result |-> "none", asker |-> 0, prompt |-> 0]
       ELSE IF ~fallback_allowed
       THEN [usb_available |-> FALSE, fallback_primed |-> fallback_primed,
             key |-> <<>>, origin |-> "None", pc |-> "done",
             result |-> "err_usb_unavailable", asker |-> 0, prompt |-> 0]
       ELSE IF ~p.ok THEN failed("err_fallback_failed", fallback_primed)
       ELSE IF p.pass = <<>> THEN failed("err_empty_passphrase", fallback_primed)
       ELSE prompted
  ELSE IF fallback_allowed
  THEN IF ~p.ok THEN failed("err_fallback_failed", TRUE)
       ELSE IF p.pass = <<>> THEN failed("err_empty_passphrase", TRUE)
       ELSE prompted
  ELSE [usb_available |-> FALSE, fallback_primed |-> fallback_primed,
        key |-> <<>>, origin |-> "None", pc |-> "done",
        result |-> "err_no_source", asker |-> 0, prompt |-> 0]

Acquire(ask, inter) ==
  /\ pc = "acquire"
  /\ LET n == AcquireStep(ask, inter)
         u == UsbTable[cfg.expected_sha256, keyFile]
     IN /\ usb_available' = n.usb_available
        /\ fallback_primed' = n.fallback_primed
        /\ key_material' = n.key
        /\ origin' = n.origin
        /\ pc' = n.pc
        /\ result' = n.result
        /\ log' = [log EXCEPT
                     !.usbCalls = @ + (IF usb_available THEN 1 ELSE 0),
                     !.usbReads = @ + (IF usb_available /\ u.read THEN 1 ELSE 0),
                     !.usbErr = IF usb_available /\ ~u.ok THEN u.err ELSE @,
                     !.askerCalls = @ + n.asker,
                     !.askerEmpty = @ + (IF n.asker = 1 /\ asker_answer_empty(ask)
                                         THEN 1 ELSE 0),
                     !.promptCalls = @ + n.prompt]
  /\ UNCHANGED <<keystatus, wrapKey, keyFile, cfg, wf, dataset, strict_usb,
                 enc_root, attempt, lockout, again, sideVars>>

\* the load of one attempt and what follows it (unlock.rs 195-277)
LoadTree(fault, absorb, prop, failing) ==
  /\ pc = "load"
  /\ LET r == load_key_tree(keystatus, wrapKey, enc_root, key_material,
                            fault, absorb, prop, failing)
         already == ~r.ok /\ Contains(r.msg, PatAlreadyLoaded)
         logged == [log EXCEPT
                      !.loads = Append(@, [target |-> enc_root, origin |-> origin]),
                      !.outcomes = Append(@, IF r.ok THEN "ok"
                                             ELSE IF already THEN "already"
                                             ELSE "rejected"),
                      !.toolLoads = @ \cup r.issued]
         failed == register_failure(lockout)
     IN /\ keystatus' = r.ks
        /\ IF r.ok
           THEN /\ lockout' = reset(lockout)
                /\ log' = [logged EXCEPT !.resets = @ + 1]
                /\ result' = "ok"
                /\ pc' = "done"
                /\ UNCHANGED <<usb_available, attempt>>
           ELSE IF treated_as_loaded(origin, r.msg)
           THEN /\ lockout' = reset(lockout)
                /\ log' = [logged EXCEPT !.resets = @ + 1]
                /\ result' = "ok_already"
                /\ pc' = "done"
                /\ UNCHANGED <<usb_available, attempt>>
           ELSE /\ usb_available' = usb_after_rejection(origin, usb_available)
                /\ IF attempt < MAX_ATTEMPTS
                   THEN /\ lockout' = wait_if_needed(failed)
                        /\ log' = [logged EXCEPT
                                     !.regs = @ + 1,
                                     !.waits = Append(@,
                                        [attempt |-> attempt,
                                         regs |-> logged.regs + 1,
                                         started |-> failed.start,
                                         slept |-> WaitNeeded(failed)])]
                        /\ attempt' = attempt + 1
                        /\ pc' = "acquire"
                        /\ result' = "none"
                   ELSE /\ lockout' = lockout
                        /\ log' = logged
                        /\ attempt' = attempt
                        /\ pc' = "done"
                        /\ result' = "err_exhausted"
  /\ UNCHANGED <<wrapKey, keyFile, cfg, wf, dataset, strict_usb, enc_root,
                 fallback_primed, key_material, origin, again, sideVars>>

\* the key read of auto_unlock_with (main.rs 387-423): [ok, bytes, err]
auto_usb_key(c, f) ==
  IF ~f.exists \/ ~f.readable \/ ~IsUtf8(f.data)
  THEN [ok |-> FALSE, bytes |-> <<>>, err |-> "read_failed"]
  ELSE LET cleaned == SelectSeq(f.data, is_ascii_hexdigit) IN
    IF Len(cleaned) # HexKeyLen
    THEN [ok |-> FALSE, bytes |-> <<>>, err |-> "malformed"]
    ELSE LET raw_key_bytes == hex_decode(cleaned)
             actual_hash == Sha256Hex(raw_key_bytes)
         IN IF c.expected_sha256.some
               /\ ~eq_ignore_ascii_case(actual_hash, c.expected_sha256.value)
            THEN [ok |-> FALSE, bytes |-> <<>>, err |-> "checksum_mismatch"]
            ELSE [ok |-> TRUE, bytes |-> raw_key_bytes, err |-> "none"]

AutoUsbTable ==
  [x \in ExpectedChoices, f \in KeyFiles |->
     auto_usb_key([expected_sha256 |-> x], KeyFileContent[f])]

\* a root that is always the dataset asked for
encryption_root_unresolved(ds, q) == ds

\* determine_encryption_root (main.rs 305-326); q: the query succeeded
determine_encryption_root(ds, q) == IF q THEN encryption_root(ds) ELSE ds

SessionLocalsCleared ==
  /\ attempt' = 0
  /\ usb_available' = TRUE
  /\ fallback_primed' = FALSE
  /\ key_material' = <<>>
  /\ origin' = "None"
  /\ lockout' = Lockout_new
  /\ strict_usb' = FALSE
  /\ again' = FALSE

\* auto_unlock_flow and auto_unlock_with (main.rs 349-440)
AutoUnlock(ds, c, f, zfs_ok, q1, q2, fault, prop) ==
  /\ Idle
  /\ wf' = "auto"
  /\ dataset' = ds
  /\ cfg' = c
  /\ keyFile' = f
  /\ pc' = "done"
  /\ SessionLocalsCleared
  /\ UNCHANGED <<wrapKey, sideVars>>
  /\ LET root == determine_encryption_root(ds, q1)
         unlocked == IF q2 THEN is_unlocked(keystatus, root) ELSE FALSE
         k == AutoUsbTable[c.expected_sha256, f]
         r == IF fault THEN [ok |-> FALSE, msg |-> MsgTimeout, ks |-> keystatus]
              ELSE load_key(keystatus, wrapKey, root, k.bytes, prop)
         queried == [EmptyLog EXCEPT !.ks0 = keystatus,
                                     !.encQueries = <<ds>>,
                                     !.rootQueryOk = q1,
                                     !.isUnlockedCalls = <<root>>,
                                     !.sawUnlocked = unlocked,
                                     !.usbCalls = 1,
                                     !.usbReads = 1,
                                     !.usbErr = k.err]
     IN IF ~zfs_ok
        THEN /\ enc_root' = ds
             /\ result' = "err_zfs"
             /\ log' = [EmptyLog EXCEPT !.ks0 = keystatus]
             /\ UNCHANGED keystatus
        ELSE /\ enc_root' = root
             /\ IF ~k.ok
                THEN /\ result' = "err_usb_unavailable"
                     /\ log' = queried
                     /\ UNCHANGED keystatus
                ELSE IF unlocked
                THEN /\ result' = "ok_selftest"
                     /\ log' = queried
                     /\ UNCHANGED keystatus
                ELSE /\ result' = IF r.ok THEN "ok" ELSE "err_load"
                     /\ log' = [queried EXCEPT
                                  !.loads = <<[target |-> root, origin |-> "Usb"]>>,
                                  !.outcomes = <<IF r.ok THEN "ok" ELSE "rejected">>,
                                  !.toolLoads = {root}]
                     /\ keystatus' = r.ks

\* the lock command (main.rs 167-179)
Lock(ds, zfs_ok, q, fault, prop) ==
  /\ Idle
  /\ wf' = "lock"
  /\ dataset' = ds
  /\ pc' = "done"
  /\ SessionLocalsCleared
  /\ UNCHANGED <<wrapKey, cfg, keyFile, sideVars>>
  /\ LET root == determine_encryption_root(ds, q)
         r == unload_key(keystatus, root, fault, prop)
     IN IF ~zfs_ok
        THEN /\ enc_root' = ds
             /\ result' = "err_zfs"
             /\ log' = [EmptyLog EXCEPT !.ks0 = keystatus]
             /\ UNCHANGED keystatus
        ELSE /\ enc_root' = root
             /\ result' = IF r.ok THEN "ok" ELSE "err_unload"
             /\ log' = [EmptyLog EXCEPT !.ks0 = keystatus,
                                        !.encQueries = <<ds>>,
                                        !.rootQueryOk = q,
                                        !.unloads = <<root>>,
                                        !.toolUnloads = {root}]
             /\ keystatus' = r.ks

\* the process ends (main.rs 127-141); the next invocation starts afresh
Exit ==
  /\ pc = "done"
  /\ pc' = "idle"
  /\ wf' = "none"
  /\ dataset' = Root
  /\ enc_root' = Root
  /\ cfg' = [fallback |-> DefaultFallback, expected_sha256 |-> NoText]
  /\ keyFile' = "hexAB"
  /\ result' = "none"
  /\ log' = EmptyLog
  /\ SessionLocalsCleared
  /\ UNCHANGED <<keystatus, wrapKey, sideVars>>

Next ==
  \/ \E ds \in Datasets, st \in BOOLEAN, c \in Configs, f \in KeyFiles,
        zfs_ok \in BOOLEAN, q1 \in BOOLEAN, q2 \in BOOLEAN :
       StartUnlock(ds, st, c, f, zfs_ok, q1, q2)
  \/ \E zfs_ok \in BOOLEAN, q1 \in BOOLEAN, q2 \in BOOLEAN :
       RepeatUnlock(zfs_ok, q1, q2)
  \/ \E ask \in AskerOutcomes, inter \in InteractOutcomes : Acquire(ask, inter)
  \/ \E fault \in BOOLEAN, absorb \in BOOLEAN,
        prop \in SUBSET Inheritors(enc_root),
        failing \in SUBSET Inheritors(enc_root) :
       LoadTree(fault, absorb, prop, failing)
  \/ \E ds \in Datasets, c \in AutoConfigs, f \in KeyFiles, zfs_ok \in BOOLEAN,
        q1 \in BOOLEAN, q2 \in BOOLEAN, fault \in BOOLEAN,
        prop \in SUBSET Inheritors(Root) :
       AutoUnlock(ds, c, f, zfs_ok, q1, q2, fault, prop)
  \/ \E ds \in Datasets, zfs_ok \in BOOLEAN, q \in BOOLEAN, fault \in BOOLEAN,
        prop \in SUBSET Inheritors(Root) :
       Lock(ds, zfs_ok, q, fault, prop)
  \/ Exit

Spec == Init /\ [][Next]_vars

\* ------------------------------------------------------------------------
\* The Lockout under arbitrary calls (src/util/lockout.rs)
\* ------------------------------------------------------------------------
\* no workflow is running
UnlockAtRest ==
  /\ keystatus = [d \in Datasets |-> "unavailable"]
  /\ wrapKey = KeyAB
  /\ keyFile = "hexAB"
  /\ cfg = [fallback |-> DefaultFallback, expected_sha256 |-> NoText]
  /\ wf = "none"
  /\ pc = "idle"
  /\ dataset = Root
  /\ strict_usb = FALSE
  /\ enc_root = Root
  /\ attempt = 0
  /\ usb_available = TRUE
  /\ fallback_primed = FALSE
  /\ key_material = <<>>
  /\ origin = "None"
  /\ lockout = Lockout_new
  /\ result = "none"
  /\ log = EmptyLog
  /\ again = FALSE

\* consecutive failures the exploration registers
MaxFailures == 6

LkRegister ==
  /\ lk.fails < MaxFailures
  /\ lk' = [cur |-> register_failure(lk.cur), prev |-> lk.cur,
            op |-> "register_failure", fails |-> lk.fails + 1]
  /\ UNCHANGED <<unlockVars, tree, storeVars, run, src, auxVars>>

LkWait ==
  /\ lk' = [lk EXCEPT !.cur = wait_if_needed(lk.cur), !.prev = lk.cur,
                      !.op = "wait_if_needed"]
  /\ UNCHANGED <<unlockVars, tree, storeVars, run, src, auxVars>>

LkReset ==
  /\ lk' = [cur |-> reset(lk.cur), prev |-> lk.cur, op |-> "reset", fails |-> 0]
  /\ UNCHANGED <<unlockVars, tree, storeVars, run, src, auxVars>>

\* time passes since the last failure (Instant::elapsed)
LkTick ==
  /\ lk.cur.start
  /\ lk.cur.elapsed < MaxDelay
  /\ lk' = [lk EXCEPT !.cur.elapsed = Min(@ + BaseDelay, MaxDelay),
                      !.prev = lk.cur, !.op = "tick"]
  /\ UNCHANGED <<unlockVars, tree, storeVars, run, src, auxVars>>

LockoutInit == UnlockAtRest /\ SideInit

LockoutNext == LkRegister \/ LkWait \/ LkReset \/ LkTick

SpecLockout == LockoutInit /\ [][LockoutNext]_vars

TypeOK ==
  /\ keystatus \in [Datasets -> {"available", "unavailable"}]
  /\ pc \in {"idle", "acquire", "load", "done"}
  /\ wf \in {"none", "unlock", "auto", "lock"}
  /\ attempt \in 0..MAX_ATTEMPTS
  /\ lockout.delay \in BaseDelay..MaxDelay

LowerText(t) == [i \in 1..Len(t) |-> to_ascii_lowercase(t[i])]

\* what a key file and a configured checksum are, told without the loader:
\* decodes: the file holds readable text with exactly 64 hex digits;
\* differs: a checksum is configured and is not the digest of the decoded key
UsbFacts ==
  [x \in ExpectedChoices, n \in KeyFiles |->
     LET f == KeyFileContent[n]
         digits == SelectSeq(f.data, is_ascii_hexdigit)
         decodes == f.exists /\ f.readable /\ IsUtf8(f.data) /\ Len(digits) = 64
     IN [decodes |-> decodes,
         differs |-> /\ decodes
                     /\ x.some
                     /\ LowerText(Sha256Hex(hex_decode(digits))) # LowerText(x.value)]]

UsbUsable == LET u == UsbFacts[cfg.expected_sha256, keyFile]
             IN u.decodes /\ ~u.differs

NoKeyAcquired ==
  /\ log.usbCalls = 0 /\ log.usbReads = 0
  /\ log.askerCalls = 0 /\ log.promptCalls = 0

IsError(r) == r \notin {"none", "ok", "ok_skip", "ok_already", "ok_selftest"}

\* the USB source has failed in this session: the file could not be read or
\* verified, or a key from it was rejected by the target
UsbFailed ==
  \/ log.usbErr # "none"
  \/ \E i \in DOMAIN log.loads :
       log.loads[i].origin = "Usb" /\ log.outcomes[i] # "ok"

\* C1: a run_unlock session calls load_key_tree at most three times, and
\* three plain rejections end it with the attempts-exhausted error.
C1_AtMostThreeLoads ==
  wf = "unlock" =>
    /\ Len(log.loads) <= 3
    /\ attempt <= 3
    /\ ( ( /\ pc = "done"
           /\ Len(log.outcomes) = 3
           /\ \A i \in 1..3 : log.outcomes[i] = "rejected" )
         => result = "err_exhausted" )
    /\ (Len(log.outcomes) = 3 /\ log.outcomes[3] = "rejected" => pc = "done")

C1_Witness ==
  /\ wf = "unlock" /\ pc = "done" /\ result = "err_exhausted"
  /\ Len(log.loads) = 3
  /\ \A i \in 1..3 : log.outcomes[i] = "rejected"

\* C2: when a checksum is configured and the decoded USB key has another
\* digest, the USB source fails with a checksum mismatch and no load is
\* ever issued with the USB key, in run_unlock and in auto_unlock_with.
C2_ChecksumGate ==
  (wf \in {"unlock", "auto"} /\ UsbFacts[cfg.expected_sha256, keyFile].differs) =>
    /\ \A i \in DOMAIN log.loads : log.loads[i].origin # "Usb"
    /\ (log.usbCalls > 0 => log.usbErr = "checksum_mismatch")
    /\ (wf = "auto" /\ result # "err_zfs" =>
          result = "err_usb_unavailable" /\ log.loads = <<>>)

C2_Witness ==
  /\ wf = "unlock" /\ pc = "done"
  /\ UsbFacts[cfg.expected_sha256, keyFile].differs
  /\ log.usbErr = "checksum_mismatch"
  /\ Len(log.loads) >= 1

\* C3: with fallback.enabled = false and a key file that cannot be read or
\* validated, run_unlock fails at its first attempt: no passphrase prompt
\* (asker tool or interactive), no load, no second look at the USB file.
C3_NoFallbackFailsAtOnce ==
  (wf = "unlock" /\ ~cfg.fallback.enabled /\ ~UsbUsable) =>
    /\ log.askerCalls = 0 /\ log.promptCalls = 0
    /\ log.loads = <<>>
    /\ log.usbCalls <= 1
    /\ attempt <= 1
    /\ (attempt = 1 /\ log.usbCalls = 1 =>
          pc = "done" /\ result = "err_usb_unavailable")
    /\ (pc = "done" /\ attempt = 1 => result = "err_usb_unavailable")

C3_Witness ==
  /\ wf = "unlock" /\ pc = "done" /\ ~cfg.fallback.enabled /\ ~strict_usb
  /\ ~UsbUsable
  /\ attempt = 1 /\ result = "err_usb_unavailable" /\ log.usbCalls = 1

\* C4 as stated: whenever the encryption root of the dataset reports
\* keystatus available, run_unlock returns success without acquiring key
\* material and without a load.
C4_RootOpenSkips ==
  ( /\ wf = "unlock" /\ pc = "done"
    /\ result \notin {"err_zfs", "err_query"}
    /\ log.rootQueryOk \/ log.encQueries = <<>>
    /\ log.ks0[EncRootOf[dataset]] = "available" )
  => (result = "ok_skip" /\ NoKeyAcquired /\ log.loads = <<>>)

\* C4, amended: whenever the dataset itself reports keystatus available,
\* run_unlock returns success at once, with no key material acquired, no
\* load and no change of any keystatus; called again it does the same.
C4_DatasetOpenSkips ==
  ( /\ wf = "unlock"
    /\ result \notin {"err_zfs", "err_query"}
    /\ log.ks0[dataset] = "available" )
  => /\ pc = "done" /\ result = "ok_skip"
     /\ NoKeyAcquired /\ log.loads = <<>> /\ log.toolLoads = {}
     /\ keystatus = log.ks0

C4_Witness ==
  /\ wf = "unlock" /\ pc = "done" /\ again
  /\ result = "ok_skip" /\ NoKeyAcquired
  /\ dataset = Child /\ log.ks0[Child] = "available"

\* where a workflow's loads and unloads must go once the root is resolved
ResolvedTarget == IF log.rootQueryOk THEN EncRootOf[dataset] ELSE dataset

\* C5 as stated: every load and unload any workflow issues targets a
\* dataset that is its own encryption root, whatever the root query says.
C5_OnlyRootsTargeted ==
  /\ \A i \in DOMAIN log.loads : EncRootOf[log.loads[i].target] = log.loads[i].target
  /\ \A i \in DOMAIN log.unloads : EncRootOf[log.unloads[i]] = log.unloads[i]
  /\ \A d \in log.toolLoads \cup log.toolUnloads : EncRootOf[d] = d

\* C5, amended: every load and unload a workflow issues targets the name
\* the encryption-root query returned, which is the dataset's encryption
\* root; only when that query fails the dataset itself is the target; the
\* only other loads are load_key_tree's own, on datasets inheriting from it.
C5_TargetsResolvedRoot ==
  /\ \A i \in DOMAIN log.loads : log.loads[i].target = ResolvedTarget
  /\ \A i \in DOMAIN log.unloads : log.unloads[i] = ResolvedTarget
  /\ log.toolLoads \subseteq ({ResolvedTarget} \cup Inheritors(ResolvedTarget))
  /\ log.toolUnloads \subseteq {ResolvedTarget}
  /\ (log.rootQueryOk =>
        \A i \in DOMAIN log.loads :
          EncRootOf[log.loads[i].target] = log.loads[i].target)

C5_Witness ==
  /\ wf = "unlock" /\ pc = "done" /\ dataset = Child /\ log.rootQueryOk
  /\ Len(log.loads) >= 1 /\ log.loads[1].target = Root

\* auto_unlock_with has run for a locked dataset whose root is another one
AutoOnInheriting ==
  /\ wf = "auto" /\ pc = "done" /\ result # "err_zfs"
  /\ log.rootQueryOk
  /\ EncRootOf[dataset] # dataset
  /\ log.ks0[dataset] = "unavailable"

\* C6 as stated: for a locked dataset D with root R # D, auto_unlock_with
\* asks for the root once (of D), checks keystatus once (of R) and issues
\* exactly one load_key, on R.
C6_ExactlyOneLoadOnRoot ==
  AutoOnInheriting =>
    /\ log.encQueries = <<dataset>>
    /\ log.isUnlockedCalls = <<EncRootOf[dataset]>>
    /\ Len(log.loads) = 1
    /\ log.loads[1].target = EncRootOf[dataset]

\* C6, amended: ... and issues at most one load_key, on R and never on D:
\* exactly one when the USB key file is read and verified and R has not
\* been reported available, none otherwise.
C6_AtMostOneLoadOnRoot ==
  AutoOnInheriting =>
    /\ log.encQueries = <<dataset>>
    /\ log.isUnlockedCalls = <<EncRootOf[dataset]>>
    /\ Len(log.loads) <= 1
    /\ \A i \in DOMAIN log.loads : log.loads[i].target = EncRootOf[dataset]
    /\ dataset \notin log.toolLoads
    /\ (Len(log.loads) = 1 <=> (UsbUsable /\ ~log.sawUnlocked))

C6_Witness ==
  /\ AutoOnInheriting /\ result = "ok"
  /\ log.loads = <<[target |-> Root, origin |-> "Usb"]>>
  /\ keystatus[Root] = "available"

\* C7: with fallback in force (enabled and not overridden by strict mode),
\* once the USB source has failed in a session the key file is never read
\* again in it, and every later load uses a passphrase.
C7_UsbNotRetried ==
  [][ ( /\ wf = "unlock" /\ pc \in {"acquire", "load"}
        /\ cfg.fallback.enabled /\ ~strict_usb
        /\ UsbFailed )
      => /\ log'.usbCalls = log.usbCalls
         /\ log'.usbReads = log.usbReads
         /\ (Len(log'.loads) > Len(log.loads) =>
               log'.loads[Len(log'.loads)].origin = "Passphrase") ]_vars

C7_Witness ==
  /\ wf = "unlock" /\ pc = "done" /\ cfg.fallback.enabled /\ ~strict_usb
  /\ Len(log.loads) = 3
  /\ log.loads[1].origin = "Usb" /\ log.outcomes[1] = "rejected"
  /\ log.loads[2].origin = "Passphrase" /\ log.loads[3].origin = "Passphrase"
  /\ log.usbCalls = 1

\* the USB source has failed other than by an "already loaded" answer
UsbFailedPlainly ==
  \/ log.usbErr # "none"
  \/ \E i \in DOMAIN log.loads :
       log.loads[i].origin = "Usb" /\ log.outcomes[i] = "rejected"

\* C8: in strict-USB mode any USB failure ends the session with an error
\* at that attempt: no passphrase prompt, no further attempt.
C8_StrictUsbTerminal ==
  (wf = "unlock" /\ strict_usb /\ UsbFailedPlainly) =>
    /\ pc = "done" /\ IsError(result)
    /\ log.askerCalls = 0 /\ log.promptCalls = 0
    /\ log.usbCalls = 1 /\ Len(log.loads) <= 1

\* C9: a load rejected with a "Key already loaded" message ends the
\* session in success, with the lockout reset, no further attempt and no
\* passphrase prompt after it, for every origin and fallback setting.
C9_AlreadyLoadedIsSuccess ==
  (wf = "unlock" /\ \E i \in DOMAIN log.outcomes : log.outcomes[i] = "already") =>
    /\ pc = "done" /\ result = "ok_already"
    /\ log.outcomes[Len(log.outcomes)] = "already"
    /\ lockout = Lockout_new

\* C10: no cooldown is waited before the first load; the k-th wait follows
\* the rejected attempt k, precedes attempt k+1, and comes after a failure
\* has been registered with the Lockout.
C10_CooldownBetweenAttempts ==
  wf = "unlock" =>
    /\ (log.loads = <<>> => log.waits = <<>> /\ lockout = Lockout_new)
    /\ \A k \in DOMAIN log.waits :
         LET w == log.waits[k] IN
           /\ w.attempt = k /\ k < 3
           /\ Len(log.outcomes) >= k /\ log.outcomes[k] # "ok"
           /\ attempt >= k + 1
           /\ w.regs = k /\ w.started /\ w.slept
    /\ Len(log.waits) = log.regs

C10_Witness ==
  /\ wf = "unlock" /\ pc = "done" /\ Len(log.waits) = 2
  /\ Len(log.loads) = 3 /\ lockout.delay = 20

\* ------------------------------------------------------------------------
\* load_key_tree on a pool of several datasets (Zfs adapter)
\* ------------------------------------------------------------------------
\* the key the pool's roots are wrapped with
TreeKey == KeyAB

TreeLoad(root, key, fault, absorb, prop, failing) ==
  /\ LET r == load_key_tree_in(TreeWorld, tree.ks, TreeKey, root, key,
                               fault, absorb, prop, failing)
     IN tree' = [ks |-> r.ks,
                 last |-> [called |-> TRUE, root |-> root, before |-> tree.ks,
                           prop |-> prop, ok |-> r.ok, msg |-> r.msg,
                           unlocked |-> r.unlocked]]
  /\ UNCHANGED <<unlockVars, lk, storeVars, run, src, auxVars>>

\* some dataset of the pool gets locked again
TreeUnload(ds) ==
  /\ tree.ks[ds] = "available"
  /\ tree' = [ks |-> [tree.ks EXCEPT ![ds] = "unavailable"], last |-> NoTreeCall]
  /\ UNCHANGED <<unlockVars, lk, storeVars, run, src, auxVars>>

TreeInit == UnlockAtRest /\ SideInit

TreeNext ==
  \/ \E root \in TreeWorld.datasets, key \in {KeyAB, KeyCD},
        fault \in BOOLEAN, absorb \in BOOLEAN :
       \E prop \in SUBSET InheritorsIn(TreeWorld, root),
          failing \in SUBSET InheritorsIn(TreeWorld, root) :
         TreeLoad(root, key, fault, absorb, prop, failing)
  \/ \E ds \in TreeWorld.datasets : TreeUnload(ds)

SpecTree == TreeInit /\ [][TreeNext]_vars

\* ------------------------------------------------------------------------
\* The Atomic Store (src/util/atomic.rs) on a small file system.
\* A file is an inode: its bytes as the running system sees them (data),
\* its bytes as persisted (durable) and its permission bits.  A directory
\* maps names to inodes (0: no entry), as seen (dir) and as persisted (ddir).
\* ------------------------------------------------------------------------
Writers == {1, 2}

Dest == "dest"
TmpNames == {"dest.tmp-a", "dest.tmp-b"}
Names == {Dest} \cup TmpNames

\* inode 1 is what the destination holds at the start; writer w creates w + 1
InodeIds == {1, 2, 3}
InodeOf(w) == w + 1

Mode0600 == {"ur", "uw"}
Mode0400 == {"ur"}
Mode0644 == {"ur", "uw", "gr", "or"}
\* umask 022 and 0222, as the sets of bits they clear
Umasks == {{"gw", "ow"}, {"uw", "gw", "ow"}}

\* the mode each writer asks for: a config (0600) and a key (0400)
ModeOf == [w \in Writers |-> IF w = 1 THEN Mode0600 ELSE Mode0400]

OldContent == <<9, 8>>
Bytes == [w \in Writers |-> IF w = 1 THEN <<1, 2>> ELSE <<3, 4>>]

NoFile == [kind |-> "none", data |-> <<>>, durable |-> <<>>, mode |-> {}]
IdleTask == [pc |-> "idle", force |-> FALSE, mode |-> {}, tmp |-> Dest, fd |-> 0]
NotRead == [read |-> FALSE, found |-> FALSE, data |-> <<>>]

\* path.exists(): follows a symbolic link (here always a dangling one)
path_exists(d, ino, name) == d[name] # 0 /\ ino[d[name]].kind = "file"

\* reject_symlink_target (atomic.rs 27-34)
is_symlink(d, ino, name) == d[name] # 0 /\ ino[d[name]].kind = "symlink"

\* a store that overwrites whatever is there
refuses_never(force, exists) == FALSE

\* the test of atomic.rs 50
refuses(force, exists) == ~force /\ exists

\* a store that writes straight into the destination
write_in_place(path, tmp) == path

\* the file the bytes are written to (atomic.rs 79-87)
write_target(path, tmp) == tmp

\* OpenOptions::mode: the requested bits less the umask (atomic.rs 82)
create_mode(mode, umask) == mode \ umask

\* a store that leaves the bits the file was created with
permissions_kept(old, mode) == old

\* set_permissions on the final path (atomic.rs 100)
set_permissions(old, mode) == mode

\* File::sync_all (atomic.rs 88)
sync_all(data, durable) == data

StoreFrame == UNCHANGED <<unlockVars, lk, tree, run, src, auxVars>>

\* atomic_write_bytes is called (atomic.rs 39)
Begin(w, force) ==
  /\ ~hist.crashed
  /\ tasks[w].pc = "idle"
  /\ tasks' = [tasks EXCEPT ![w] = [pc |-> "check", force |-> force,
                                    mode |-> ModeOf[w], tmp |-> Dest,
                                    fd |-> 0]]
  /\ UNCHANGED <<inodes, dir, ddir, seen, hist>>
  /\ StoreFrame

\* reject_symlink_target and the force test (atomic.rs 40-55)
Check(w) ==
  /\ tasks[w].pc = "check"
  /\ tasks' = [tasks EXCEPT ![w].pc =
        IF is_symlink(dir, inodes, Dest) THEN "err"
        ELSE IF refuses(tasks[w].force, path_exists(dir, inodes, Dest)) THEN "err"
        ELSE "pick"]
  /\ UNCHANGED <<inodes, dir, ddir, seen, hist>>
  /\ StoreFrame

\* the temporary name the loop of atomic.rs 66-76 ends with: a free one, or
\* a taken one when every draw collided or another writer took it meanwhile
Pick(w, n) ==
  /\ tasks[w].pc = "pick"
  /\ tasks' = [tasks EXCEPT ![w].pc = "open", ![w].tmp = n]
  /\ UNCHANGED <<inodes, dir, ddir, seen, hist>>
  /\ StoreFrame

\* create_new with the explicit mode (atomic.rs 79-84)
Open(w) ==
  /\ tasks[w].pc = "open"
  /\ LET name == write_target(Dest, tasks[w].tmp) IN
     IF dir[name] # 0
     THEN /\ tasks' = [tasks EXCEPT ![w].pc = "err"]
          /\ UNCHANGED <<inodes, dir>>
     ELSE /\ tasks' = [tasks EXCEPT ![w].pc = "write", ![w].tmp = name]
          /\ inodes' = [inodes EXCEPT ![InodeOf(w)] =
                          [kind |-> "file", data |-> <<>>, durable |-> <<>>,
                           mode |-> create_mode(tasks[w].mode, hist.umask)]]
          /\ dir' = [dir EXCEPT ![name] = InodeOf(w)]
  /\ UNCHANGED <<ddir, seen, hist>>
  /\ StoreFrame

\* write_all, one write at a time; a write may fail (atomic.rs 87)
Write(w, fails) ==
  /\ tasks[w].pc = "write"
  /\ LET i == InodeOf(w)
         n == Len(inodes[i].data)
     IN IF fails
        THEN /\ tasks' = [tasks EXCEPT ![w].pc = "err"]
             /\ UNCHANGED inodes
        ELSE /\ inodes' = [inodes EXCEPT ![i].data = SubSeq(Bytes[w], 1, n + 1)]
             /\ tasks' = [tasks EXCEPT ![w].pc =
                            IF n + 1 = Len(Bytes[w]) THEN "sync" ELSE "write"]
  /\ UNCHANGED <<dir, ddir, seen, hist>>
  /\ StoreFrame

\* sync_all on the temporary file (atomic.rs 88)
Sync(w) ==
  /\ tasks[w].pc = "sync"
  /\ inodes' = [inodes EXCEPT ![InodeOf(w)].durable =
                  sync_all(inodes[InodeOf(w)].data, @)]
  /\ tasks' = [tasks EXCEPT ![w].pc = "rename"]
  /\ UNCHANGED <<dir, ddir, seen, hist>>
  /\ StoreFrame

\* fs::rename(tmp, path) (atomic.rs 91-97); renaming a file onto itself
\* leaves it where it is
Rename(w) ==
  /\ tasks[w].pc = "rename"
  /\ IF dir[tasks[w].tmp] = 0
     THEN /\ tasks' = [tasks EXCEPT ![w].pc = "err"]
          /\ UNCHANGED <<dir, hist>>
     ELSE /\ tasks' = [tasks EXCEPT ![w].pc = "chmod"]
          /\ dir' = IF tasks[w].tmp = Dest THEN dir
                    ELSE [dir EXCEPT ![Dest] = dir[tasks[w].tmp],
                                     ![tasks[w].tmp] = 0]
          /\ hist' = [hist EXCEPT !.lastRename = w]
  /\ UNCHANGED <<inodes, ddir, seen>>
  /\ StoreFrame

\* fs::set_permissions(path, mode) (atomic.rs 100-101)
Chmod(w) ==
  /\ tasks[w].pc = "chmod"
  /\ IF ~path_exists(dir, inodes, Dest)
     THEN /\ tasks' = [tasks EXCEPT ![w].pc = "err"]
          /\ UNCHANGED <<inodes, hist>>
     ELSE /\ tasks' = [tasks EXCEPT ![w].pc = "syncdir"]
          /\ inodes' = [inodes EXCEPT ![dir[Dest]].mode =
                          set_permissions(@, tasks[w].mode)]
          /\ hist' = [hist EXCEPT !.lastChmod = w]
  /\ UNCHANGED <<dir, ddir, seen>>
  /\ StoreFrame

\* fsync_dir and return (atomic.rs 104-106)
SyncDir(w) ==
  /\ tasks[w].pc = "syncdir"
  /\ ddir' = dir
  /\ tasks' = [tasks EXCEPT ![w].pc = "ok"]
  /\ UNCHANGED <<inodes, dir, seen, hist>>
  /\ StoreFrame

\* a reader opens the destination and reads it to the end
ReadDest ==
  /\ seen' = IF path_exists(dir, inodes, Dest)
             THEN [read |-> TRUE, found |-> TRUE, data |-> inodes[dir[Dest]].data]
             ELSE [read |-> TRUE, found |-> FALSE, data |-> <<>>]
  /\ seen' # seen
  /\ UNCHANGED <<inodes, dir, ddir, tasks, hist>>
  /\ StoreFrame

\* what a file holds after a power loss: its persisted bytes (cut = -1) or,
\* when bytes were written and not synced, any leading part of them
CrashData(f, cut) ==
  IF cut = -1 \/ f.data = f.durable THEN f.durable ELSE SubSeq(f.data, 1, cut)

\* the machine loses power: every writer is gone, each directory entry is
\* the latest one (names in latest) or the persisted one, unsynced bytes may
\* be lost in part
Crash(latest, cut) ==
  /\ ~hist.crashed
  /\ \E w \in Writers : tasks[w].pc \notin {"idle", "ok", "err", "done"}
  /\ \A n \in Names : (dir[n] = ddir[n]) => n \in latest
  /\ \A i \in InodeIds :
       /\ cut[i] <= Len(inodes[i].data)
       /\ (inodes[i].data = inodes[i].durable) => cut[i] = -1
  /\ dir' = [n \in Names |-> IF n \in latest THEN dir[n] ELSE ddir[n]]
  /\ ddir' = dir'
  /\ inodes' = [i \in InodeIds |->
                  LET kept == CrashData(inodes[i], cut[i]) IN
                  [inodes[i] EXCEPT !.data = kept, !.durable = kept]]
  /\ tasks' = [w \in Writers |-> [tasks[w] EXCEPT !.pc = "dead"]]
  /\ hist' = [hist EXCEPT !.crashed = TRUE]
  /\ UNCHANGED seen
  /\ StoreFrame

\* the destination at the start: absent, a file, or a symbolic link
StoreStart(initial, umask) ==
  /\ inodes = [i \in InodeIds |->
                 IF i = 1 /\ initial = "file"
                 THEN [kind |-> "file", data |-> OldContent,
                       durable |-> OldContent, mode |-> Mode0644]
                 ELSE IF i = 1 /\ initial = "symlink"
                 THEN [NoFile EXCEPT !.kind = "symlink"]
                 ELSE NoFile]
  /\ dir = [n \in Names |-> IF n = Dest /\ initial # "absent" THEN 1 ELSE 0]
  /\ ddir = dir
  /\ tasks = [w \in Writers |-> IdleTask]
  /\ seen = NotRead
  /\ hist = [initial |-> initial, umask |-> umask, lastRename |-> 0,
             lastChmod |-> 0, crashed |-> FALSE]

StoreInit ==
  /\ UnlockAtRest /\ LkRest /\ TreeRest /\ RunRest /\ SrcRest /\ AuxRest
  /\ \E initial \in {"absent", "file", "symlink"}, umask \in Umasks :
       StoreStart(initial, umask)

StoreNext ==
  \/ \E w \in Writers, force \in BOOLEAN : Begin(w, force)
  \/ \E w \in Writers : Check(w)
  \/ \E w \in Writers, n \in TmpNames : Pick(w, n)
  \/ \E w \in Writers : Open(w)
  \/ \E w \in Writers, fails \in BOOLEAN : Write(w, fails)
  \/ \E w \in Writers : Sync(w)
  \/ \E w \in Writers : Rename(w)
  \/ \E w \in Writers : Chmod(w)
  \/ \E w \in Writers : SyncDir(w)
  \/ ReadDest
  \/ \E latest \in SUBSET Names, cut \in [InodeIds -> -1..Len(OldContent)] :
       Crash(latest, cut)

SpecStore == StoreInit /\ [][StoreNext]_vars

\* ------------------------------------------------------------------------
\* Writers of the Config file: init and doctor (atomic_write_toml, writer 1)
\* and the default template of start-up (src/main.rs 88-119, writer 2)
\* ------------------------------------------------------------------------
ConfigWriter == 1
TemplateWriter == 2

\* File::create opens with mode 0o666, less the umask
Mode0666 == {"ur", "uw", "gr", "gw", "or", "ow"}

\* File::create(path): creates the file, or truncates the one that is there;
\* the handle stays on that file whatever the path names later
file_create(w, name) ==
  /\ IF dir[name] = 0
     THEN /\ inodes' = [inodes EXCEPT ![InodeOf(w)] =
                          [kind |-> "file", data |-> <<>>, durable |-> <<>>,
                           mode |-> create_mode(Mode0666, hist.umask)]]
          /\ dir' = [dir EXCEPT ![name] = InodeOf(w)]
          /\ tasks' = [tasks EXCEPT ![w].fd = InodeOf(w), ![w].pc = "t_write"]
     ELSE /\ inodes' = [inodes EXCEPT ![dir[name]].data = <<>>]
          /\ dir' = dir
          /\ tasks' = [tasks EXCEPT ![w].fd = dir[name], ![w].pc = "t_write"]

\* write_all through an open handle, one write at a time; a write may fail
file_write(w, fails, next) ==
  LET i == tasks[w].fd
      n == Len(inodes[i].data)
  IN IF fails \/ n >= Len(Bytes[w])
     THEN /\ tasks' = [tasks EXCEPT ![w].pc = "err"]
          /\ UNCHANGED inodes
     ELSE /\ inodes' = [inodes EXCEPT ![i].data = SubSeq(Bytes[w], 1, n + 1)]
          /\ tasks' = [tasks EXCEPT ![w].pc =
                         IF n + 1 = Len(Bytes[w]) THEN next ELSE "t_write"]

\* init.rs 378-380 and doctor.rs 1065-1070: set_permissions(0o600) after
\* atomic_write_toml has returned
ConfigPerms ==
  /\ tasks[ConfigWriter].pc = "ok"
  /\ path_exists(dir, inodes, Dest)
  /\ inodes' = [inodes EXCEPT ![dir[Dest]].mode = set_permissions(@, Mode0600)]
  /\ tasks' = [tasks EXCEPT ![ConfigWriter].pc = "done"]
  /\ UNCHANGED <<dir, ddir, seen, hist>>
  /\ StoreFrame

\* main.rs 88-89: start-up looks for the config file
TemplateBegin ==
  /\ ~hist.crashed
  /\ tasks[TemplateWriter].pc = "idle"
  /\ tasks' = [tasks EXCEPT ![TemplateWriter].pc =
                 IF path_exists(dir, inodes, Dest) THEN "done" ELSE "t_create",
               ![TemplateWriter].mode = Mode0600]
  /\ UNCHANGED <<inodes, dir, ddir, seen, hist>>
  /\ StoreFrame

\* main.rs 110-111: File::create(cfg_path)
TemplateCreate ==
  /\ tasks[TemplateWriter].pc = "t_create"
  /\ file_create(TemplateWriter, Dest)
  /\ UNCHANGED <<ddir, seen, hist>>
  /\ StoreFrame

\* main.rs 112: f.write_all(default_cfg)
TemplateWrite(fails) ==
  /\ tasks[TemplateWriter].pc = "t_write"
  /\ file_write(TemplateWriter, fails, "t_chmod")
  /\ UNCHANGED <<dir, ddir, seen, hist>>
  /\ StoreFrame

\* main.rs 113-114: set_permissions(cfg_path, 0o600)
TemplatePerms ==
  /\ tasks[TemplateWriter].pc = "t_chmod"
  /\ IF ~path_exists(dir, inodes, Dest)
     THEN /\ tasks' = [tasks EXCEPT ![TemplateWriter].pc = "err"]
          /\ UNCHANGED inodes
     ELSE /\ tasks' = [tasks EXCEPT ![TemplateWriter].pc = "done"]
          /\ inodes' = [inodes EXCEPT ![dir[Dest]].mode =
                          set_permissions(@, tasks[TemplateWriter].mode)]
  /\ UNCHANGED <<dir, ddir, seen, hist>>
  /\ StoreFrame

ConfigInit ==
  /\ UnlockAtRest /\ LkRest /\ TreeRest /\ RunRest /\ SrcRest /\ AuxRest
  /\ \E initial \in {"absent", "file"}, umask \in Umasks :
       StoreStart(initial, umask)

ConfigNext ==
  \/ \E force \in BOOLEAN : Begin(ConfigWriter, force)
  \/ Check(ConfigWriter)
  \/ \E n \in TmpNames : Pick(ConfigWriter, n)
  \/ Open(ConfigWriter)
  \/ \E fails \in BOOLEAN : Write(ConfigWriter, fails)
  \/ Sync(ConfigWriter)
  \/ Rename(ConfigWriter)
  \/ Chmod(ConfigWriter)
  \/ SyncDir(ConfigWriter)
  \/ ConfigPerms
  \/ TemplateBegin
  \/ TemplateCreate
  \/ \E fails \in BOOLEAN : TemplateWrite(fails)
  \/ TemplatePerms
  \/ ReadDest
  \/ \E latest \in SUBSET Names, cut \in [InodeIds -> -1..Len(OldContent)] :
       Crash(latest, cut)

SpecConfig == ConfigInit /\ [][ConfigNext]_vars

\* ------------------------------------------------------------------------
\* ensure_raw_key_file on the key file (src/util/keyfile.rs 54-72), called
\* by dracut_install.rs 82.  On this file system a key file is short:
\* OldContent stands for the 64 hex digits, Bytes[KeyWriter] for the 32 raw
\* bytes they decode to.
\* ------------------------------------------------------------------------
KeyWriter == 2

\* the encoding read_key_material finds (keyfile.rs 25-51)
key_encoding(data) ==
  IF data = Bytes[KeyWriter] THEN "Raw"
  ELSE IF data = OldContent THEN "Hex"
  ELSE "malformed"

\* ensure_raw_key_file is called and reads the file (keyfile.rs 54-56)
EnsureRead ==
  /\ ~hist.crashed
  /\ tasks[KeyWriter].pc = "idle"
  /\ tasks' = [tasks EXCEPT ![KeyWriter].pc =
        IF ~path_exists(dir, inodes, Dest) THEN "err"
        ELSE IF key_encoding(inodes[dir[Dest]].data) = "Raw" THEN "done"
        ELSE IF key_encoding(inodes[dir[Dest]].data) = "Hex" THEN "k_create"
        ELSE "err",
                     ![KeyWriter].mode = Mode0400]
  /\ UNCHANGED <<inodes, dir, ddir, seen, hist>>
  /\ StoreFrame

\* rewrite_key_file: File::create(path) (keyfile.rs 65-66)
RewriteCreate ==
  /\ tasks[KeyWriter].pc = "k_create"
  /\ file_create(KeyWriter, Dest)
  /\ UNCHANGED <<ddir, seen, hist>>
  /\ StoreFrame

\* file.write_all(raw) (keyfile.rs 67)
RewriteWrite(fails) ==
  /\ tasks[KeyWriter].pc = "t_write"
  /\ file_write(KeyWriter, fails, "k_sync")
  /\ UNCHANGED <<dir, ddir, seen, hist>>
  /\ StoreFrame

\* file.sync_all().ok(): a failed sync is ignored (keyfile.rs 68)
RewriteSync(synced) ==
  /\ tasks[KeyWriter].pc = "k_sync"
  /\ inodes' = [inodes EXCEPT ![tasks[KeyWriter].fd].durable =
                  IF synced THEN sync_all(inodes[tasks[KeyWriter].fd].data, @)
                  ELSE @]
  /\ tasks' = [tasks EXCEPT ![KeyWriter].pc = "k_chmod"]
  /\ UNCHANGED <<dir, ddir, seen, hist>>
  /\ StoreFrame

\* set_permissions(path, 0o400) (keyfile.rs 69-71)
RewritePerms ==
  /\ tasks[KeyWriter].pc = "k_chmod"
  /\ IF ~path_exists(dir, inodes, Dest)
     THEN /\ tasks' = [tasks EXCEPT ![KeyWriter].pc = "err"]
          /\ UNCHANGED inodes
     ELSE /\ tasks' = [tasks EXCEPT ![KeyWriter].pc = "done"]
          /\ inodes' = [inodes EXCEPT ![dir[Dest]].mode =
                          set_permissions(@, tasks[KeyWriter].mode)]
  /\ UNCHANGED <<dir, ddir, seen, hist>>
  /\ StoreFrame

KeyFileInit ==
  /\ UnlockAtRest /\ LkRest /\ TreeRest /\ RunRest /\ SrcRest /\ AuxRest
  /\ \E initial \in {"absent", "file"}, umask \in Umasks :
       StoreStart(initial, umask)

KeyFileNext ==
  \/ EnsureRead
  \/ RewriteCreate
  \/ \E fails \in BOOLEAN : RewriteWrite(fails)
  \/ \E synced \in BOOLEAN : RewriteSync(synced)
  \/ RewritePerms
  \/ ReadDest
  \/ \E latest \in SUBSET Names, cut \in [InodeIds -> -1..Len(OldContent)] :
       Crash(latest, cut)

SpecKeyFile == KeyFileInit /\ [][KeyFileNext]_vars

\* ------------------------------------------------------------------------
\* The two readers of the key file: read_key_material (keyfile.rs 25-51,
\* behind ensure_raw_key_file) and load_usb_key_material (unlock.rs 285-325,
\* the source run_unlock uses), on key files of every shape
\* ------------------------------------------------------------------------
KeyText == [i \in 1..RawKeyLen |-> 97]
SrcKeys == {KeyAB, KeyCD, KeyText}

HexShapes == {"hex", "hexUpper", "hexNewline"}
OtherShapes == {"short", "long", "empty"}
Shapes == HexShapes \cup {"raw"} \cup OtherShapes

\* the bytes of a key file of shape sh made from key k
key_file_of(k, sh) ==
  CASE sh = "hex" -> hex_encode(k)
    [] sh = "hexUpper" -> ToUpperText(hex_encode(k))
    [] sh = "hexNewline" -> hex_encode(k) \o <<10>>
    [] sh = "raw" -> k
    [] sh = "short" -> SubSeq(hex_encode(k), 1, HexKeyLen - 2)
    [] sh = "long" -> k \o <<0>>
    [] sh = "empty" -> <<>>

\* read_key_material: [ok, bytes, err, encoding].  from_utf8_lossy turns
\* every invalid sequence into U+FFFD, which is no hex digit, and no byte
\* of a multi-byte character is one: the filter keeps the ASCII hex digits
read_key_material(f) ==
  IF ~f.exists \/ ~f.readable
  THEN [ok |-> FALSE, bytes |-> <<>>, err |-> "read_failed", encoding |-> "none"]
  ELSE IF Len(f.data) = RawKeyLen
  THEN [ok |-> TRUE, bytes |-> f.data, err |-> "none", encoding |-> "Raw"]
  ELSE LET cleaned == SelectSeq(f.data, is_ascii_hexdigit) IN
    IF Len(cleaned) = HexKeyLen
    THEN [ok |-> TRUE, bytes |-> hex_decode(cleaned), err |-> "none",
          encoding |-> "Hex"]
    ELSE [ok |-> FALSE, bytes |-> <<>>, err |-> "malformed", encoding |-> "none"]

NoCall == [op |-> "none", ok |-> FALSE, bytes |-> <<>>, err |-> "none"]

SrcFrame == UNCHANGED <<unlockVars, lk, tree, storeVars, run, auxVars>>

\* read_key_material(path)
SrcReadKeyMaterial ==
  /\ LET r == read_key_material(src.file) IN
     src' = [src EXCEPT !.last = [op |-> "read_key_material", ok |-> r.ok,
                                  bytes |-> r.bytes, err |-> r.err]]
  /\ SrcFrame

\* load_usb_key_material(ui, cfg), as run_unlock calls it (unlock.rs 109)
SrcLoadUsb ==
  /\ LET r == load_usb_key_material([expected_sha256 |-> src.expected], src.file) IN
     src' = [src EXCEPT !.last = [op |-> "load_usb_key_material", ok |-> r.ok,
                                  bytes |-> r.bytes, err |-> r.err]]
  /\ SrcFrame

\* ensure_raw_key_file(path), run to its end (keyfile.rs 54-61): a hex file
\* is rewritten with the decoded bytes
SrcEnsureRaw ==
  /\ LET r == read_key_material(src.file) IN
     src' = [src EXCEPT
               !.file.data = IF r.ok /\ r.encoding = "Hex" THEN r.bytes ELSE @,
               !.shape = IF r.ok /\ r.encoding = "Hex" THEN "raw" ELSE @,
               !.ensured = @ \/ r.ok,
               !.last = [op |-> "ensure_raw_key_file", ok |-> r.ok,
                         bytes |-> r.bytes, err |-> r.err]]
  /\ SrcFrame

KeySourceInit ==
  /\ UnlockAtRest /\ LkRest /\ TreeRest /\ StoreRest /\ RunRest /\ AuxRest
  /\ \E k \in SrcKeys, sh \in Shapes :
       \E x \in {NoText, Some(Sha256Hex(k))} :
         src = [key |-> k, shape |-> sh, expected |-> x, ensured |-> FALSE,
                file |-> [exists |-> TRUE, readable |-> TRUE,
                          data |-> key_file_of(k, sh)],
                last |-> NoCall]

KeySourceNext == SrcReadKeyMaterial \/ SrcLoadUsb \/ SrcEnsureRaw

SpecKeySource == KeySourceInit /\ [][KeySourceNext]_vars

\* ------------------------------------------------------------------------
\* Cmd::run after the spawn: the executor of src/cmd/base.rs
\* (wait_with_timeout, 109-158) and the one of src/cmd.rs (57-82).
\* Time is counted in sleep slices; the child exits when it pleases.
\* ------------------------------------------------------------------------
MaxTimeout == 2
MaxClock == MaxTimeout + 2

Executors == {"base", "legacy"}

\* a run that reports success whatever it found
timeout_ignored(timed_out) == "Ok"

\* what the call returns once the child is gone (base.rs 145-157,
\* cmd.rs 62-66 and 79)
timeout_result(timed_out) == IF timed_out THEN "Err" ELSE "Ok"

\* start.elapsed() > timeout
elapsed_over(clock, timeout) == clock > timeout

RunFrame == UNCHANGED <<unlockVars, lk, tree, storeVars, src, auxVars>>

\* the child exits by itself and stays a zombie until it is waited for
ChildExit ==
  /\ run.pc # "returned"
  /\ run.child = "running"
  /\ run' = [run EXCEPT !.child = "exited"]
  /\ RunFrame

\* time passes
Tick ==
  /\ run.pc # "returned"
  /\ run.clock < MaxClock
  /\ run' = [run EXCEPT !.clock = @ + 1]
  /\ RunFrame

\* child.try_wait() (base.rs 123-127, cmd.rs 59)
TryWait(fails) ==
  /\ run.pc = "try_wait"
  /\ run' = IF fails
            THEN [run EXCEPT !.pc = "returned", !.ret = "Err"]
            ELSE IF run.child = "exited"
            THEN [run EXCEPT !.child = "reaped", !.status = TRUE,
                             !.pc = "collect"]
            ELSE [run EXCEPT !.pc = "check"]
  /\ RunFrame

\* the timeout test after try_wait found the child running (base.rs 129,
\* cmd.rs 67)
CheckTimeout ==
  /\ run.pc = "check"
  /\ run' = IF elapsed_over(run.clock, run.timeout)
            THEN [run EXCEPT !.timed_out = TRUE,
                             !.pc = IF run.impl = "legacy" THEN "term" ELSE "kill"]
            ELSE [run EXCEPT !.pc = "sleep"]
  /\ RunFrame

\* thread::sleep of one slice (base.rs 135, cmd.rs 80)
Sleep ==
  /\ run.pc = "sleep"
  /\ run' = [run EXCEPT !.pc = "try_wait",
                        !.clock = IF @ < MaxClock THEN @ + 1 ELSE @]
  /\ RunFrame

\* SIGTERM and the 200 ms pause (cmd.rs 69-75); the child may exit on it
Terminate(obeys) ==
  /\ run.pc = "term"
  /\ run' = [run EXCEPT !.pc = "kill", !.termed = TRUE,
                        !.child = IF obeys /\ @ = "running" THEN "exited" ELSE @]
  /\ RunFrame

\* child.kill() (base.rs 131, cmd.rs 76): SIGKILL ends a running child
Kill ==
  /\ run.pc = "kill"
  /\ run' = [run EXCEPT !.pc = "wait", !.killed = TRUE,
                        !.child = IF @ = "running" THEN "exited" ELSE @]
  /\ RunFrame

\* child.wait() (base.rs 132, cmd.rs 77): returns once the child is reaped
Wait ==
  /\ run.pc = "wait"
  /\ run.child = "exited"
  /\ run' = [run EXCEPT !.child = "reaped",
                        !.pc = IF run.impl = "legacy" THEN "result" ELSE "collect"]
  /\ RunFrame

\* a descendant of the child that inherited its stdout and stderr exits,
\* closing the last write ends of the pipes
HeirExit ==
  /\ run.pc # "returned"
  /\ run.heir = "alive"
  /\ run' = [run EXCEPT !.heir = "gone"]
  /\ RunFrame

\* the reader threads are joined (base.rs 139-144), wait_with_output
\* collects the pipes (cmd.rs 60): an error of either is returned as it is.
\* read_to_end (base.rs 167-169) ends when every write end is closed
Collect(fails) ==
  /\ run.pc = "collect"
  /\ run.heir # "alive"
  /\ run' = IF fails
            THEN [run EXCEPT !.pc = "returned", !.ret = "Err"]
            ELSE [run EXCEPT !.pc = "result"]
  /\ RunFrame

\* the return (base.rs 146-157, cmd.rs 61-66 and 78)
Return ==
  /\ run.pc = "result"
  /\ run' = [run EXCEPT !.pc = "returned",
                        !.ret = timeout_result(run.timed_out)]
  /\ RunFrame

RunInit ==
  /\ UnlockAtRest /\ LkRest /\ TreeRest /\ StoreRest /\ SrcRest /\ AuxRest
  /\ \E impl \in Executors, timeout \in 0..MaxTimeout, heir \in {"none", "alive"} :
       run = [impl |-> impl, timeout |-> timeout, clock |-> 0, heir |-> heir,
              pc |-> "try_wait", child |-> "running", status |-> FALSE,
              timed_out |-> FALSE, termed |-> FALSE, killed |-> FALSE,
              ret |-> "none"]

RunNext ==
  \/ ChildExit
  \/ Tick
  \/ \E fails \in BOOLEAN : TryWait(fails)
  \/ CheckTimeout
  \/ Sleep
  \/ \E obeys \in BOOLEAN : Terminate(obeys)
  \/ Kill
  \/ Wait
  \/ HeirExit
  \/ \E fails \in BOOLEAN : Collect(fails)
  \/ Return

SpecRun == RunInit /\ [][RunNext]_vars

\* the steps of the calling thread
RunSteps ==
  \/ \E fails \in BOOLEAN : TryWait(fails)
  \/ CheckTimeout
  \/ Sleep
  \/ \E obeys \in BOOLEAN : Terminate(obeys)
  \/ Kill
  \/ Wait
  \/ \E fails \in BOOLEAN : Collect(fails)
  \/ Return

\* the calling thread keeps running and time keeps passing; the child and
\* its descendants exit when they please, or never
SpecRunLive == RunInit /\ [][RunNext]_vars /\ WF_vars(RunSteps) /\ WF_vars(Tick)

\* ------------------------------------------------------------------------
\* Cmd::new_allowlisted (src/cmd/base.rs 28-79, src/cmd.rs 25-36) and the
\* candidate lists the workflows pick their binaries from
\* ------------------------------------------------------------------------
\* the candidate list of each tool, in the order the code tries them
Candidates ==
  [t \in {"zfs", "zpool", "systemctl", "systemd-analyze", "blkid", "lsblk",
          "mount", "umount", "parted", "mkfs.ext4", "udevadm", "dracut",
          "update-initramfs"} |->
     CASE t = "zfs" -> <<"/sbin/zfs", "/usr/sbin/zfs", "/usr/local/sbin/zfs", "/bin/zfs">>
       [] t = "zpool" -> <<"/sbin/zpool", "/usr/sbin/zpool", "/usr/local/sbin/zpool",
                           "/bin/zpool">>
       [] t = "systemctl" -> <<"/bin/systemctl", "/usr/bin/systemctl">>
       [] t = "systemd-analyze" -> <<"/bin/systemd-analyze", "/usr/bin/systemd-analyze">>
       [] t = "blkid" -> <<"/sbin/blkid", "/usr/sbin/blkid", "/usr/bin/blkid">>
       [] t = "lsblk" -> <<"/bin/lsblk", "/usr/bin/lsblk">>
       [] t = "mount" -> <<"/bin/mount", "/usr/bin/mount">>
       [] t = "umount" -> <<"/bin/umount", "/usr/bin/umount">>
       [] t = "parted" -> <<"/sbin/parted", "/usr/sbin/parted", "/usr/bin/parted">>
       [] t = "mkfs.ext4" -> <<"/sbin/mkfs.ext4", "/usr/sbin/mkfs.ext4",
                               "/usr/bin/mkfs.ext4">>
       [] t = "udevadm" -> <<"/sbin/udevadm", "/usr/sbin/udevadm", "/usr/bin/udevadm">>
       [] t = "dracut" -> <<"/usr/bin/dracut", "/usr/sbin/dracut">>
       [] t = "update-initramfs" -> <<"/usr/sbin/update-initramfs">>]

Tools == DOMAIN Candidates

Range(q) == {q[i] : i \in 1..Len(q)}

\* what a path names on disk
PathKinds == {"none", "file", "dir"}

\* Path::exists
exists_on(disk, path) == disk[path] # "none"

\* Path::is_file
is_file(disk, path) == disk[path] = "file"

\* Cmd::new_allowlisted of src/cmd.rs: the binary must be a regular file
\* (canonicalize then succeeds)
new_allowlisted_legacy(disk, path) == is_file(disk, path)

\* the constructor of each executor
construct(impl, disk, path) ==
  IF impl = "base" THEN new_allowlisted(path)
  ELSE new_allowlisted_legacy(disk, path)

\* find_binary, resolve_zpool_path, run_external, rebuild_initramfs: the
\* first candidate that exists (0: none does)
RECURSIVE first_existing(_, _, _)
first_existing(disk, cands, i) ==
  IF i > Len(cands) THEN 0
  ELSE IF exists_on(disk, cands[i]) THEN i
  ELSE first_existing(disk, cands, i + 1)

CtorFrame == UNCHANGED <<unlockVars, lk, tree, storeVars, run, src,
                         ini, doc, rec, norm>>

\* a workflow picks the binary of its tool from the candidate list
CtorSelect ==
  /\ ctor.path = "" /\ ctor.result = "none"
  /\ LET i == first_existing(ctor.disk, Candidates[ctor.tool], 1) IN
     ctor' = IF i = 0
             THEN [ctor EXCEPT !.result = "Err_not_found"]
             ELSE [ctor EXCEPT !.path = Candidates[ctor.tool][i],
                               !.selected = TRUE]
  /\ CtorFrame

\* a caller passes a configured path (policy.zfs_path, askpass_path)
CtorConfigured(path) ==
  /\ ctor.path = "" /\ ctor.result = "none"
  /\ ctor' = [ctor EXCEPT !.path = path]
  /\ CtorFrame

\* Cmd::new_allowlisted(path, timeout)
CtorConstruct ==
  /\ ctor.path # "" /\ ctor.result = "none"
  /\ ctor' = [ctor EXCEPT !.result =
                IF construct(ctor.impl, ctor.disk, ctor.path) THEN "Ok" ELSE "Err"]
  /\ CtorFrame

CtorInit ==
  /\ UnlockAtRest /\ LkRest /\ TreeRest /\ StoreRest /\ RunRest /\ SrcRest
  /\ IniRest /\ DocRest /\ RecRest /\ NormRest
  /\ \E impl \in Executors, t \in Tools :
       \E disk \in [Range(Candidates[t]) \cup {AskPathForeign} -> PathKinds] :
         ctor = [impl |-> impl, tool |-> t, disk |-> disk, path |-> "",
                 selected |-> FALSE, result |-> "none"]

CtorNext ==
  \/ CtorSelect
  \/ \E path \in DOMAIN ctor.disk : CtorConfigured(path)
  \/ CtorConstruct

SpecCmd == CtorInit /\ [][CtorNext]_vars

\* ------------------------------------------------------------------------
\* run_init from the USB preparation to its return (src/cmd/init.rs
\* 222-300), with apply_key_to_encryption_root (973-1071) and
\* write_key_to_usb (846-944).  Every tool call succeeds or fails.
\* rootKey is the wrapping key in force on the encryption root, token what
\* the key file on the USB token holds.
\* ------------------------------------------------------------------------
IniFrame == UNCHANGED <<unlockVars, lk, tree, storeVars, run, src,
                        ctor, doc, rec, norm>>

\* run_init returns the error of a failed step
IniFail(step) ==
  [ini EXCEPT !.pc = "returned", !.result = "Err", !.failed = step]

\* apply_key_to_encryption_root returns an error, and run_init with it
ApplyFail(step) ==
  [ini EXCEPT !.pc = "returned", !.result = "Err", !.failed = step,
              !.applyRet = "Err"]

\* init.rs 222-283: wipe_usb_token when forced, else ensure_beskar_partition
PrepareToken(ok) ==
  /\ ini.pc = "prepare"
  /\ ini' = IF ~ok THEN IniFail("prepare")
            ELSE [ini EXCEPT !.pc = "change",
                             !.token = IF ini.force THEN "none" ELSE @]
  /\ IniFrame

\* change_key_with_bytes to the new key (init.rs 986-987)
ChangeKey(ok) ==
  /\ ini.pc = "change"
  /\ ini' = IF ~ok THEN ApplyFail("change")
            ELSE [ini EXCEPT !.pc = "set_prompt", !.rootKey = "new",
                             !.changed = TRUE]
  /\ IniFrame

\* set_property keylocation=prompt (init.rs 989-990)
SetPrompt(ok) ==
  /\ ini.pc = "set_prompt"
  /\ ini' = IF ~ok THEN ApplyFail("set_prompt") ELSE [ini EXCEPT !.pc = "verify"]
  /\ IniFrame

\* verify_keyformat_raw (init.rs 991)
VerifyFormat(ok) ==
  /\ ini.pc = "verify"
  /\ ini' = IF ~ok THEN ApplyFail("verify") ELSE [ini EXCEPT !.pc = "load"]
  /\ IniFrame

\* load_key_tree with the new key (init.rs 993-1037)
LoadNewKey(outcome) ==
  /\ ini.pc = "load"
  /\ ini' = CASE outcome \in {"ok", "already"} -> [ini EXCEPT !.pc = "set_location"]
              [] outcome = "err" ->
                   IF ini.existing THEN [ini EXCEPT !.pc = "revert"]
                   ELSE ApplyFail("load")
  /\ IniFrame

\* the revert change-key to the previous key (init.rs 1039-1062); the load
\* error is returned whatever the revert did
Revert(ok) ==
  /\ ini.pc = "revert"
  /\ ini' = [ApplyFail("load") EXCEPT !.reverted = TRUE,
                                      !.rootKey = IF ok THEN "old" ELSE @]
  /\ IniFrame

\* set_property keylocation=file://... (init.rs 1012-1014, 1020-1023)
SetLocation(ok) ==
  /\ ini.pc = "set_location"
  /\ ini' = IF ~ok THEN ApplyFail("set_location")
            ELSE [ini EXCEPT !.pc = "usb_mount", !.applyRet = "Ok"]
  /\ IniFrame

\* write_key_to_usb: mount_partition (init.rs 853-854)
UsbMount(ok) ==
  /\ ini.pc = "usb_mount"
  /\ ini' = IF ~ok THEN IniFail("usb_mount") ELSE [ini EXCEPT !.pc = "usb_remove"]
  /\ IniFrame

\* write_key_to_usb: the key file found there is removed (init.rs 856-868);
\* a failed removal is an error only when forced
UsbRemove(ok) ==
  /\ ini.pc = "usb_remove"
  /\ ini' = IF ini.token = "none" THEN [ini EXCEPT !.pc = "usb_write"]
            ELSE IF ok THEN [ini EXCEPT !.pc = "usb_write", !.token = "none"]
            ELSE IF ini.force THEN IniFail("usb_remove")
            ELSE [ini EXCEPT !.pc = "usb_write"]
  /\ IniFrame

\* write_key_to_usb: File::create truncates, write_all writes the new key
\* (init.rs 870-876)
UsbWrite(step) ==
  /\ ini.pc = "usb_write"
  /\ ini' = CASE step = "create_fails" -> IniFail("usb_write")
              [] step = "write_fails" ->
                   [IniFail("usb_write") EXCEPT !.token = "partial"]
              [] step = "ok" -> [ini EXCEPT !.pc = "usb_unmount", !.token = "new"]
  /\ IniFrame

\* write_key_to_usb: the unmount (init.rs 878-930)
UsbUnmount(ok) ==
  /\ ini.pc = "usb_unmount"
  /\ ini' = IF ~ok THEN IniFail("usb_unmount") ELSE [ini EXCEPT !.pc = "rest"]
  /\ IniFrame

\* the later phases of run_init (init.rs 301-480): runtime mount, Config,
\* initramfs, self-test
RestOfInit(ok) ==
  /\ ini.pc = "rest"
  /\ ini' = IF ~ok THEN IniFail("rest")
            ELSE [ini EXCEPT !.pc = "returned", !.result = "Ok"]
  /\ IniFrame

IniInit ==
  /\ UnlockAtRest /\ LkRest /\ TreeRest /\ StoreRest /\ RunRest /\ SrcRest
  /\ CtorRest /\ DocRest /\ RecRest /\ NormRest
  /\ \E force \in BOOLEAN, token \in {"none", "old", "other"}, existing \in BOOLEAN :
       /\ existing => token = "old"
       /\ ini = [pc |-> "prepare", force |-> force, token |-> token,
                 existing |-> existing, rootKey |-> "old", changed |-> FALSE,
                 reverted |-> FALSE, applyRet |-> "none", result |-> "none",
                 failed |-> "none"]

IniNext ==
  \/ \E ok \in BOOLEAN : PrepareToken(ok)
  \/ \E ok \in BOOLEAN : ChangeKey(ok)
  \/ \E ok \in BOOLEAN : SetPrompt(ok)
  \/ \E ok \in BOOLEAN : VerifyFormat(ok)
  \/ \E outcome \in {"ok", "already", "err"} : LoadNewKey(outcome)
  \/ \E ok \in BOOLEAN : Revert(ok)
  \/ \E ok \in BOOLEAN : SetLocation(ok)
  \/ \E ok \in BOOLEAN : UsbMount(ok)
  \/ \E ok \in BOOLEAN : UsbRemove(ok)
  \/ \E step \in {"create_fails", "write_fails", "ok"} : UsbWrite(step)
  \/ \E ok \in BOOLEAN : UsbUnmount(ok)
  \/ \E ok \in BOOLEAN : RestOfInit(ok)

SpecInit == IniInit /\ [][IniNext]_vars

\* ------------------------------------------------------------------------
\* The recorded checksum under run_doctor (src/cmd/doctor.rs 436-520) and
\* the checksum gate of unlock (src/cmd/unlock.rs 304-314)
\* ------------------------------------------------------------------------
\* the key verification of run_doctor: the expected_sha256 it leaves in
\* the Config it holds
doctor_expected(expected, f) ==
  IF ~f.exists \/ ~f.readable \/ ~IsUtf8(f.data) THEN expected
  ELSE LET cleaned == SelectSeq(f.data, is_ascii_hexdigit) IN
    IF Len(cleaned) # HexKeyLen THEN expected
    ELSE LET actual_sha == Sha256Hex(hex_decode(cleaned)) IN
      IF expected.some /\ eq_ignore_ascii_case(expected.value, actual_sha)
      THEN expected
      ELSE Some(actual_sha)

DocFrame == UNCHANGED <<unlockVars, lk, tree, storeVars, run, src,
                        ctor, ini, rec, norm>>

\* the key source of unlock reads the key file against the Config on disk
DocUnlock ==
  /\ LET r == load_usb_key_material([expected_sha256 |-> doc.expected],
                                    KeyFileContent[doc.file])
         res == IF r.ok THEN "ok" ELSE r.err
     IN doc' = IF doc.doctored THEN [doc EXCEPT !.after = res]
               ELSE [doc EXCEPT !.before = res]
  /\ DocFrame

\* run_doctor verifies the key material and persists what it changed
\* (doctor.rs 466-507); persist_config may fail
DocDoctor(persisted) ==
  /\ ~doc.doctored
  /\ LET e == doctor_expected(doc.expected, KeyFileContent[doc.file]) IN
     doc' = [doc EXCEPT !.doctored = TRUE,
                        !.fixed = (e # doc.expected) /\ persisted,
                        !.expected = IF persisted THEN e ELSE @]
  /\ DocFrame

\* another token is inserted before the doctor runs
DocSwap(f) ==
  /\ ~doc.doctored /\ doc.before = "none" /\ ~doc.swapped
  /\ f # doc.file
  /\ doc' = [doc EXCEPT !.file = f, !.swapped = TRUE]
  /\ DocFrame

DocInit ==
  /\ UnlockAtRest /\ LkRest /\ TreeRest /\ StoreRest /\ RunRest /\ SrcRest
  /\ CtorRest /\ IniRest /\ RecRest /\ NormRest
  /\ \E x \in ExpectedChoices, f \in KeyFiles :
       doc = [expected |-> x, recorded |-> x, file |-> f, swapped |-> FALSE,
              doctored |-> FALSE, fixed |-> FALSE,
              before |-> "none", after |-> "none"]

DocNext ==
  \/ DocUnlock
  \/ \E persisted \in BOOLEAN : DocDoctor(persisted)
  \/ \E f \in KeyFiles : DocSwap(f)

SpecDoctor == DocInit /\ [][DocNext]_vars

\* ------------------------------------------------------------------------
\* The recovery code: what run_init shows (src/cmd/init.rs 409-416,
\* 498-505), encode_recovery_code and decode_recovery_code
\* (src/util/recovery.rs), and run_recover reading it (src/cmd/recover.rs)
\* ------------------------------------------------------------------------
Pow2(n) == IF n = 0 THEN 1 ELSE IF n = 1 THEN 2 ELSE IF n = 2 THEN 4
           ELSE IF n = 3 THEN 8 ELSE IF n = 4 THEN 16 ELSE IF n = 5 THEN 32
           ELSE IF n = 6 THEN 64 ELSE 128

\* bit j (from 1, most significant first) of a byte string, 0 past its end
BitOf(bytes, j) ==
  IF j > 8 * Len(bytes) THEN 0
  ELSE (bytes[((j - 1) \div 8) + 1] \div Pow2(7 - ((j - 1) % 8))) % 2

\* the RFC 4648 base32 alphabet
B32Char(v) == IF v < 26 THEN 65 + v ELSE 50 + (v - 26)
IsB32Char(c) == c \in 65..90 \/ c \in 50..55
B32Val(c) == IF c \in 65..90 THEN c - 65 ELSE c - 50 + 26

\* BASE32_NOPAD.encode
base32_encode(bytes) ==
  [i \in 1..((8 * Len(bytes) + 4) \div 5) |->
     B32Char(16 * BitOf(bytes, 5 * i - 4) + 8 * BitOf(bytes, 5 * i - 3)
             + 4 * BitOf(bytes, 5 * i - 2) + 2 * BitOf(bytes, 5 * i - 1)
             + BitOf(bytes, 5 * i))]

\* bit j of a base32 text
B32Bit(text, j) ==
  (B32Val(text[((j - 1) \div 5) + 1]) \div Pow2(4 - ((j - 1) % 5))) % 2

\* BASE32_NOPAD.decode: [ok, bytes]; fails on a symbol outside the
\* alphabet, on an impossible length and on non-zero trailing bits
base32_decode(text) ==
  LET n == Len(text)
      nbytes == (5 * n) \div 8
  IN IF \/ \E i \in 1..n : ~IsB32Char(text[i])
        \/ (n % 8) \in {1, 3, 6}
        \/ \E j \in (8 * nbytes + 1)..(5 * n) : B32Bit(text, j) = 1
     THEN [ok |-> FALSE, bytes |-> <<>>]
     ELSE [ok |-> TRUE,
           bytes |-> [i \in 1..nbytes |->
                        128 * B32Bit(text, 8 * i - 7) + 64 * B32Bit(text, 8 * i - 6)
                        + 32 * B32Bit(text, 8 * i - 5) + 16 * B32Bit(text, 8 * i - 4)
                        + 8 * B32Bit(text, 8 * i - 3) + 4 * B32Bit(text, 8 * i - 2)
                        + 2 * B32Bit(text, 8 * i - 1) + B32Bit(text, 8 * i)]]

\* char::is_whitespace, for ASCII
is_whitespace(c) == c = 32 \/ c \in 9..13

\* encode_recovery_code (recovery.rs 9-11)
encode_recovery_code(raw) == ToUpperText(base32_encode(raw))

\* decode_recovery_code (recovery.rs 13-29): [ok, bytes]
decode_recovery_code(input) ==
  LET kept == SelectSeq(input, LAMBDA c : ~is_whitespace(c) /\ c # 45)
      cleaned == ToUpperText(kept)
      d == base32_decode(cleaned)
  IN IF ~d.ok \/ Len(d.bytes) # RawKeyLen
     THEN [ok |-> FALSE, bytes |-> <<>>]
     ELSE d

\* group_string (init.rs 656-667)
group_string(input, chunk, separator) ==
  IF chunk = 0 \/ Len(input) = 0 THEN input
  ELSE [i \in 1..(Len(input) + (Len(input) - 1) \div chunk) |->
          IF i % (chunk + 1) = 0 THEN separator
          ELSE input[i - (i \div (chunk + 1))]]

\* draws of generate_recovery_key (init.rs 498-505): 24 characters of
\* A-Z, a-z, 0-9
RecoveryDraws == {Rep2(65, 66, 12), Rep2(97, 49, 12), Rep2(90, 55, 12)}

KeyMixed == [i \in 1..RawKeyLen |-> (37 * i + 11) % 256]
RecKeys == {KeyAB, KeyCD, KeyText, KeyMixed}

\* how the operator types the code that was shown
Typings == {"as_shown", "lowercase", "spaced", "bare"}

typed_as(code, how) ==
  CASE how = "as_shown" -> code
    [] how = "lowercase" -> LowerCaseText(code)
    [] how = "spaced" -> [i \in 1..Len(code) |-> IF code[i] = 45 THEN 32 ELSE code[i]]
    [] how = "bare" -> SelectSeq(code, LAMBDA c : c # 45)

RecFrame == UNCHANGED <<unlockVars, lk, tree, storeVars, run, src,
                        ctor, ini, doc, norm>>

\* run_init shows the recovery code (init.rs 409-416)
RecInitShows(recovery) ==
  /\ rec.shownBy = "none"
  /\ rec' = [rec EXCEPT !.shownBy = "run_init",
                        !.code = group_string(ToUpperText(recovery), 4, 45)]
  /\ RecFrame

\* the code encode_recovery_code makes of the key, grouped the same way
RecEncodes ==
  /\ rec.shownBy = "none"
  /\ rec' = [rec EXCEPT !.shownBy = "encode_recovery_code",
                        !.code = group_string(encode_recovery_code(rec.key), 4, 45)]
  /\ RecFrame

\* the operator types the code at the prompt of run_recover (recover.rs 18-22)
RecTypes(how) ==
  /\ rec.shownBy # "none" /\ rec.typed = <<>>
  /\ rec' = [rec EXCEPT !.typed = typed_as(rec.code, how)]
  /\ RecFrame

\* run_recover decodes what was typed (recover.rs 23)
RecDecodes ==
  /\ rec.typed # <<>> /\ ~rec.decoded
  /\ LET d == decode_recovery_code(rec.typed) IN
     rec' = [rec EXCEPT !.decoded = TRUE, !.ok = d.ok, !.bytes = d.bytes]
  /\ RecFrame

RecInit ==
  /\ UnlockAtRest /\ LkRest /\ TreeRest /\ StoreRest /\ RunRest /\ SrcRest
  /\ CtorRest /\ IniRest /\ DocRest /\ NormRest
  /\ \E k \in RecKeys :
       rec = [key |-> k, shownBy |-> "none", code |-> <<>>, typed |-> <<>>,
              decoded |-> FALSE, ok |-> FALSE, bytes |-> <<>>]

RecNext ==
  \/ \E recovery \in RecoveryDraws : RecInitShows(recovery)
  \/ RecEncodes
  \/ \E how \in Typings : RecTypes(how)
  \/ RecDecodes

SpecRecovery == RecInit /\ [][RecNext]_vars

\* ------------------------------------------------------------------------
\* Re-normalization of an existing Config: normalize_config in run_init
\* (src/cmd/init.rs 336-346, 541-576) and the re-anchoring of the primary
\* dataset in run_doctor (src/cmd/doctor.rs 224-283)
\* ------------------------------------------------------------------------
MaxDatasets == 3

NormNames == {Root, Child, Home}

\* policy.datasets as ConfigFile::load returns it (config.rs 133-151):
\* any list, empty and with repeated entries included
DatasetLists == UNION {[1..n -> NormNames] : n \in 0..MaxDatasets}

\* what `zfs get encryptionroot` answers: the encryption root of an
\* encryption root is that root itself
ObservedRoots == {er \in [NormNames -> NormNames] : \A d \in NormNames : er[er[d]] = er[d]}

DEFAULT_ZFS_BIN == "/sbin/zfs"
DEFAULT_TIMEOUT == 10
AskPassDefault == "/usr/bin/systemd-ask-password"
BlankPaths == {"", "  "}
ZfsPaths == {NoPath, Some("/usr/local/sbin/zfs")} \cup {Some(b) : b \in BlankPaths}
NewKeyPath == "/run/beskar/rpool.keyhex"
NewSha == "sha256-of-new-key"
BinaryPath == "/usr/local/bin/zfs_beskar_key"

Occurrences(list, d) == Cardinality({i \in 1..Len(list) : list[i] = d})
Without(list, d) == SelectSeq(list, LAMBDA e : e # d)

\* the list an insert at index 0 gives when the retain before it is left out
normalize_config_keeping(conf, ds, key_path, sha256, default_timeout, binary_path) ==
  [conf EXCEPT !.datasets = <<ds>> \o conf.datasets]

\* normalize_config (init.rs 541-576)
normalize_config(conf, ds, key_path, sha256, default_timeout, binary_path) ==
  [allow_root |-> TRUE,
   datasets |-> <<ds>> \o Without(conf.datasets, ds),
   zfs_path |-> IF ~conf.zfs_path.some \/ conf.zfs_path.value \in BlankPaths
                THEN Some(DEFAULT_ZFS_BIN) ELSE conf.zfs_path,
   binary_path |-> Some(binary_path),
   timeout_secs |-> IF conf.timeout_secs = 0 THEN default_timeout ELSE conf.timeout_secs,
   key_hex_path |-> key_path,
   expected_sha256 |-> Some(sha256),
   askpass_path |-> IF ~conf.askpass_path.some THEN Some(AskPassDefault) ELSE conf.askpass_path]

\* the primary dataset run_doctor reads (doctor.rs 224-228)
primary_dataset(conf) == IF Len(conf.datasets) = 0 THEN Root ELSE conf.datasets[1]

\* whether run_doctor rewrites the policy (doctor.rs 242, 245-251)
realigns(conf, er) ==
  LET root == er[primary_dataset(conf)] IN
  /\ root # primary_dataset(conf)
  /\ (Len(conf.datasets) = 0 \/ conf.datasets[1] # root)

\* the re-anchoring of run_doctor (doctor.rs 240-253)
realign_policy(conf, er) ==
  LET root == er[primary_dataset(conf)] IN
  IF realigns(conf, er)
  THEN [conf EXCEPT !.datasets = <<root>> \o Without(conf.datasets, root)]
  ELSE conf

NormFrame == UNCHANGED <<unlockVars, lk, tree, storeVars, run, src,
                         ctor, ini, doc, rec>>

\* run_init on an existing Config (init.rs 130, 336-346): encroot is the
\* encryption root of the target dataset
NormInitConfig(target) ==
  /\ norm.applied < 2
  /\ norm.by \in {"none", "init"}
  /\ norm.by = "init" => target = norm.target
  /\ LET encroot == norm.er[target]
         out == normalize_config(norm.cfg, encroot, NewKeyPath, NewSha,
                                 DEFAULT_TIMEOUT, BinaryPath)
     IN norm' = [norm EXCEPT !.cfg = out, !.by = "init", !.target = target,
                   !.root = IF norm.applied = 0 THEN encroot ELSE norm.root,
                   !.acted = IF norm.applied = 0 THEN TRUE ELSE norm.acted,
                   !.first = IF norm.applied = 0 THEN out ELSE norm.first,
                   !.applied = norm.applied + 1]
  /\ NormFrame

\* run_doctor's encryption-root check (doctor.rs 224-283)
NormDoctor ==
  /\ norm.applied < 2
  /\ norm.by \in {"none", "doctor"}
  /\ LET root == norm.er[primary_dataset(norm.cfg)]
         out == realign_policy(norm.cfg, norm.er)
     IN norm' = [norm EXCEPT !.cfg = out, !.by = "doctor",
                   !.root = IF norm.applied = 0 THEN root ELSE norm.root,
                   !.acted = IF norm.applied = 0 THEN realigns(norm.cfg, norm.er)
                             ELSE norm.acted,
                   !.first = IF norm.applied = 0 THEN out ELSE norm.first,
                   !.applied = norm.applied + 1]
  /\ NormFrame

NormInit ==
  /\ UnlockAtRest /\ LkRest /\ TreeRest /\ StoreRest /\ RunRest /\ SrcRest
  /\ CtorRest /\ IniRest /\ DocRest /\ RecRest
  /\ \E list \in DatasetLists, er \in ObservedRoots, zp \in ZfsPaths,
        t \in {0, 30}, ap \in {NoPath, Some("/bin/ask")} :
       LET conf == [allow_root |-> FALSE, datasets |-> list, zfs_path |-> zp,
                   binary_path |-> NoPath, timeout_secs |-> t,
                   key_hex_path |-> "/run/beskar/old.keyhex",
                   expected_sha256 |-> Some("sha256-of-old-key"), askpass_path |-> ap]
       IN norm = [cfg |-> conf, before |-> conf, first |-> conf, er |-> er,
                  by |-> "none", target |-> Root, root |-> Root,
                  acted |-> FALSE, applied |-> 0]

NormNext ==
  \/ \E target \in NormNames : NormInitConfig(target)
  \/ NormDoctor

SpecNormalize == NormInit /\ [][NormNext]_vars

\* ------------------------------------------------------------------------
\* Properties
\* ------------------------------------------------------------------------
\* the delay k consecutive failures lead to: 5 s doubled k times, at most 60 s
RECURSIVE DelayAfter(_)
DelayAfter(k) ==
  IF k = 0 THEN 5
  ELSE LET d == 2 * DelayAfter(k - 1) IN IF d > 60 THEN 60 ELSE d

\* C11: under any sequence of register_failure, wait_if_needed and reset,
\* a failure sets the delay to min(2 x previous, 60 s), so the delay never
\* shrinks across failures nor passes the cap; only reset lowers it, to
\* exactly 5 s with the timestamp cleared; wait_if_needed changes neither.
C11_DelayEscalation ==
  /\ lk.cur.delay >= 5 /\ lk.cur.delay <= 60
  /\ lk.cur.delay = DelayAfter(lk.fails)
  /\ (lk.op = "register_failure" =>
        /\ lk.cur.delay = (IF 2 * lk.prev.delay > 60 THEN 60 ELSE 2 * lk.prev.delay)
        /\ lk.cur.delay >= lk.prev.delay)
  /\ (lk.op = "wait_if_needed" =>
        lk.cur.delay = lk.prev.delay /\ lk.cur.start = lk.prev.start)
  /\ (lk.op = "reset" => lk.cur.delay = 5 /\ ~lk.cur.start)
  /\ (lk.cur.delay < lk.prev.delay => lk.op = "reset")

C11_Witness ==
  /\ lk.op = "register_failure"
  /\ lk.prev.delay = 40 /\ lk.cur.delay = 60 /\ lk.fails = 4

\* the datasets sharing the root of the last load_key_tree that are locked
StillLockedNow ==
  {d \in TreeWorld.datasets :
     TreeWorld.rootOf[d] = tree.last.root /\ tree.ks[d] # "available"}

\* the last load_key_tree failed on the root's own load, with the tool's error
RootLoadFailed == tree.last.msg \in {MsgTimeout, MsgIncorrect, MsgAlready}

\* C12: load_key_tree succeeds only if the scan after loading finds no
\* ds of that root locked; its list holds the root and every
\* descendant it unlocked; with a ds of that root still locked it
\* fails, and the error of the scan names every still-locked ds.
C12_TreeVerified ==
  tree.last.called =>
    /\ (tree.last.ok => StillLockedNow = {})
    /\ (tree.last.ok =>
          /\ tree.last.root \in tree.last.unlocked
          /\ \A d \in TreeWorld.datasets :
               ( /\ TreeWorld.rootOf[d] = tree.last.root
                 /\ tree.last.before[d] # "available"
                 /\ tree.ks[d] = "available"
                 /\ d \notin tree.last.prop ) => d \in tree.last.unlocked
          /\ \A d \in tree.last.unlocked : tree.ks[d] = "available")
    /\ (StillLockedNow # {} => ~tree.last.ok)
    /\ (~tree.last.ok /\ ~RootLoadFailed =>
          /\ StillLockedNow # {}
          /\ \A d \in StillLockedNow :
               \E i \in DOMAIN tree.last.msg : tree.last.msg[i] = d
          /\ \A d \in TreeWorld.datasets \ StillLockedNow :
               \A i \in DOMAIN tree.last.msg : tree.last.msg[i] # d)

C12_Witness ==
  /\ tree.last.called /\ tree.last.ok /\ tree.last.root = Root
  /\ tree.last.prop = {}
  /\ \A d \in TreeWorld.datasets : tree.last.before[d] = "unavailable"
  /\ tree.last.unlocked = {Root, Child, Home}
  /\ tree.ks[Other] = "unavailable"

\* the complete contents the destination may hold: what it held at the
\* start and the bytes of each writer that has been called
CompleteContents ==
  (IF hist.initial = "file" THEN {OldContent} ELSE {})
    \cup {Bytes[w] : w \in {v \in Writers : tasks[v].pc # "idle"}}

\* C13: under any interleaving of concurrent atomic_write_bytes calls with
\* a reader, and across a crash at any step, the destination holds its
\* complete previous content or the complete bytes of one writer, never
\* an empty, truncated or mixed file; once all writers have finished it
\* holds the bytes of the writer that renamed last.
C13_AllOrNothing ==
  hist.initial # "symlink" =>
    /\ (dir[Dest] # 0 =>
          /\ inodes[dir[Dest]].kind = "file"
          /\ inodes[dir[Dest]].data \in CompleteContents)
    /\ (hist.initial = "file" => dir[Dest] # 0)
    /\ (seen.read /\ seen.found =>
          seen.data \in {OldContent, Bytes[1], Bytes[2]})
    /\ (seen.read /\ hist.initial = "file" => seen.found)
    /\ ( ( /\ ~hist.crashed
           /\ hist.lastRename # 0
           /\ \A w \in Writers : tasks[w].pc \in {"idle", "ok", "err"} )
         => inodes[dir[Dest]].data = Bytes[hist.lastRename] )

C13_Witness ==
  /\ ~hist.crashed /\ hist.initial = "file"
  /\ \A w \in Writers : tasks[w].pc = "ok" /\ tasks[w].force
  /\ hist.lastRename = 1
  /\ inodes[dir[Dest]].data = Bytes[1]
  /\ seen.read /\ seen.data = Bytes[2]

\* C14: atomic_write_bytes with force = false on a destination that exists
\* returns an error and writes nothing: content, permission bits and
\* directory stay as they are and no temporary file is created.
C14_NoForceNoWrite ==
  [][ \A w \in Writers :
        /\ ( ( /\ tasks[w].pc = "check"
               /\ ~tasks[w].force
               /\ dir[Dest] # 0
               /\ tasks'[w].pc \notin {"check", "dead"} )
             => /\ tasks'[w].pc = "err"
                /\ inodes' = inodes /\ dir' = dir /\ ddir' = ddir
                /\ inodes'[InodeOf(w)].kind = "none" )
        /\ (tasks[w].pc = "err" => tasks'[w].pc \in {"err", "dead"}) ]_vars

C14_Witness ==
  /\ hist.initial = "file" /\ ~hist.crashed
  /\ tasks[1].pc = "err" /\ ~tasks[1].force /\ tasks[2].pc = "idle"
  /\ inodes[InodeOf(1)].kind = "none"
  /\ \A n \in TmpNames : dir[n] = 0
  /\ inodes[dir[Dest]].data = OldContent
  /\ inodes[dir[Dest]].mode = Mode0644

\* C15: after a successful atomic_write_bytes(path, bytes, mode, force) with
\* no later write by another caller, the path holds exactly bytes with
\* exactly the bits of mode, whatever the umask and whatever was there.
C15_ReadBackExact ==
  \A w \in Writers :
    (tasks[w].pc = "ok" /\ hist.lastRename = w /\ hist.lastChmod = w) =>
      /\ dir[Dest] # 0
      /\ inodes[dir[Dest]].kind = "file"
      /\ inodes[dir[Dest]].data = Bytes[w]
      /\ inodes[dir[Dest]].mode = (IF w = 1 THEN {"ur", "uw"} ELSE {"ur"})

C15_Witness ==
  /\ hist.initial = "file" /\ hist.umask = {"uw", "gw", "ow"}
  /\ tasks[1].pc = "ok" /\ tasks[2].pc = "idle"
  /\ inodes[dir[Dest]].data = Bytes[1]
  /\ inodes[dir[Dest]].mode = {"ur", "uw"}

\* C16: whichever workflow writes the Config (the default template of
\* start-up, init, the doctor's repairs), no reader and no crash ever finds
\* a partially written Config at the path: what is read, and what is left
\* after a power loss, is a complete Config.
C16_ConfigNeverPartial ==
  /\ (seen.read /\ seen.found =>
        seen.data \in {OldContent, Bytes[ConfigWriter], Bytes[TemplateWriter]})
  /\ (hist.crashed /\ dir[Dest] # 0 =>
        inodes[dir[Dest]].data
          \in {OldContent, Bytes[ConfigWriter], Bytes[TemplateWriter]})

\* C17: while ensure_raw_key_file converts a key file, at every
\* intermediate point, a crash included, the file holds the complete
\* original hex text or the complete raw bytes, never something empty or
\* truncated; a reader finds one of the two as well.
C17_KeyFileNeverPartial ==
  hist.initial = "file" =>
    /\ dir[Dest] # 0
    /\ inodes[dir[Dest]].data \in {OldContent, Bytes[KeyWriter]}
    /\ (seen.read => seen.found /\ seen.data \in {OldContent, Bytes[KeyWriter]})

\* C18: the key source of unlock accepts a key file holding the 64 hex
\* digits of a key and a key file holding its 32 raw bytes, and yields the
\* same key from both; a file of another shape is rejected.  A key file
\* rewritten raw by ensure_raw_key_file is accepted afterwards.
C18_BothEncodingsAccepted ==
  (src # <<>> /\ src.last.op = "load_usb_key_material") =>
    IF src.shape \in HexShapes \cup {"raw"}
    THEN src.last.ok /\ src.last.bytes = src.key
    ELSE ~src.last.ok

\* C19: the key load is never run with an empty passphrase: an attempt at
\* its load holds non-empty key material, every empty answer of the asker
\* tool was followed by the interactive prompt, and a session that ended
\* on an empty passphrase ended before the load of that attempt.
C19_NoEmptyPassphrase ==
  /\ (pc = "load" => key_material # <<>> /\ origin \in {"Usb", "Passphrase"})
  /\ log.askerEmpty <= log.promptCalls
  /\ (result = "err_empty_passphrase" =>
        pc = "done" /\ key_material = <<>> /\ Len(log.loads) < attempt)

C19_Witness ==
  /\ wf = "unlock" /\ pc = "load"
  /\ log.askerEmpty = 1 /\ log.promptCalls = 1
  /\ origin = "Passphrase" /\ key_material = PassPw

\* C20: whenever Cmd::run finds the timeout elapsed while the child is
\* still running, the call returns an error, never an OutputData, and by
\* the time it returns the child has been sent the kill and reaped.
C20_TimeoutIsError ==
  run # <<>> =>
    /\ (run.ret = "Ok" => ~run.timed_out /\ run.status /\ run.child = "reaped")
    /\ (run.timed_out /\ run.pc = "returned" =>
          /\ run.ret = "Err"
          /\ run.killed
          /\ run.child = "reaped"
          /\ (run.impl = "legacy" => run.termed))

C20_Witness ==
  /\ run # <<>>
  /\ run.impl = "base" /\ run.timed_out /\ run.pc = "returned"
  /\ run.ret = "Err" /\ run.killed /\ run.child = "reaped" /\ ~run.status

\* C21: a Cmd is constructed only for a path that is in the allowlist and
\* names an existing regular file at that time; new_allowlisted fails for
\* every other path.
C21_AllowlistedRegularFile ==
  (ctor # <<>> /\ ctor.result \in {"Ok", "Err"}) =>
    (ctor.result = "Ok" <=>
       (ctor.path \in Allowed /\ ctor.disk[ctor.path] = "file"))

\* C22: a binary a workflow has picked from its candidate list because it
\* is on disk is never refused by Cmd::new_allowlisted as not allowlisted.
C22_CandidatesAllowlisted ==
  (ctor # <<>> /\ ctor.impl = "base" /\ ctor.selected
     /\ ctor.result \in {"Ok", "Err"}) => ctor.result = "Ok"

\* C23: on timeout the forced kill is sent only after the graceful
\* termination request: no child is killed that was not asked to terminate.
C23_TermBeforeKill ==
  (run # <<>> /\ run.killed) => run.termed

\* C24: every Cmd::run returns once the child has exited or the timeout has
\* elapsed, whatever the child and its descendants do.
C24_RunReturns ==
  (run.child # "running" \/ elapsed_over(run.clock, run.timeout))
    ~> (run.pc = "returned")

\* C29: a writer with force = false never replaces a destination that
\* exists when its rename takes effect: it fails and the file stays.
C29_NoForceNeverReplaces ==
  [][ \A w \in Writers :
        ( /\ tasks[w].pc = "rename"
          /\ ~tasks[w].force
          /\ dir[Dest] # 0
          /\ tasks'[w].pc \notin {"rename", "dead"} )
        => (tasks'[w].pc = "err" /\ dir'[Dest] = dir[Dest]) ]_vars

\* C25: whenever run_init returns after the change-key succeeded, the
\* wrapping key in force on the encryption root is the key the USB token
\* holds: the new key written there, or the previous key still there.
C25_KeyInForceIsOnToken ==
  (ini # <<>> /\ ini.pc = "returned" /\ ini.changed) => ini.token = ini.rootKey

\* C26: when apply_key_to_encryption_root returns an error after the
\* change-key succeeded and a previous key is known, a revert change-key
\* to the previous key has been issued, whichever later step failed.
C26_RevertOnEveryFailure ==
  (ini # <<>> /\ ini.applyRet = "Err" /\ ini.changed /\ ini.existing)
    => ini.reverted

\* C27: a checksum recorded by initialization is not replaced by the hash
\* of the key file at hand: a key file the checksum gate rejected as
\* mismatching before run_doctor is rejected the same way after it.
C27_DoctorKeepsChecksum ==
  doc # <<>> =>
    /\ (doc.recorded.some => doc.expected = doc.recorded)
    /\ (doc.before = "checksum_mismatch" /\ doc.after # "none"
          => doc.after = "checksum_mismatch")

\* C28: the recovery code run_init shows, typed into run_recover in any
\* case and with or without spaces and hyphens, decodes to exactly the
\* 32-byte key that init set on the encryption root.
C28_RecoveryCodeRoundTrip ==
  (rec # <<>> /\ rec.shownBy = "run_init" /\ rec.decoded) =>
    (rec.ok /\ rec.bytes = rec.key)

\* C30: when run_init normalizes an existing Config, or run_doctor
\* re-anchors its policy, the encryption root is the first entry of
\* policy.datasets and occurs there exactly once, the other entries are
\* the ones the list held before, in their order, and doing it again with
\* the same inputs changes nothing.
C30_RootFirstOnceIdempotent ==
  (norm # <<>> /\ norm.applied >= 1) =>
    /\ norm.acted =>
         /\ Len(norm.first.datasets) >= 1
         /\ norm.first.datasets[1] = norm.root
         /\ Occurrences(norm.first.datasets, norm.root) = 1
         /\ Without(norm.first.datasets, norm.root)
              = Without(norm.before.datasets, norm.root)
    /\ norm.applied = 2 => norm.cfg = norm.first

\* the root was listed twice behind two other entries, and the operation
\* has been applied a second time
C30_Witness ==
  /\ norm # <<>> /\ norm.applied = 2 /\ norm.acted
  /\ Len(norm.before.datasets) = MaxDatasets
  /\ norm.before.datasets[1] # norm.root
  /\ Occurrences(norm.before.datasets, norm.root) = 2

====
